---- MODULE Spec2Model ----
(***************************************************************************)
(* A model of the ComicAlive motion-comic generator.                       *)
(*                                                                         *)
(*   Spec       the ProjectCoordinator (src/src/core/project_coordinator)  *)
(*              driven through its public operations in any order          *)
(*   SpecMerge  the panel geometry: PanelDetector._merge_overlapping_panels*)
(*              and the reading-order sorts                                *)
(*   SpecAnim   the Animator's three effect generators                     *)
(*   SpecAudio  the AudioGenerator's speech synthesis with its fallback    *)
(*   SpecVideo  the VideoRenderer's sequence file (the encoder's manifest)  *)
(*   SpecRender the coordinator's pipeline rendered at a chosen fps         *)
(*   SpecFailures the coordinator up to generate_audio, any calls failing   *)
(*   SpecPage   ImageProcessor.process_image on a page's contour rectangles *)
(*                                                                         *)
(* Python tuples (x, y, w, h) are the TLA+ tuples <<x, y, w, h>>, Python   *)
(* lists are sequences, dicts are functions, None is the string "None".    *)
(***************************************************************************)
EXTENDS Integers, Sequences, FiniteSets, TLC

VARIABLES
    \* ---- panel geometry (SpecMerge)
    cands,        \* the candidate rectangles handed to the detector, in contour order
    geo_out,      \* [op, result]: the last geometry call and the list it returned
    \* ---- animator (SpecAnim)
    an_in,        \* the arguments of the effect generator call
    an_out,       \* [op, frames]: the generator called and the frames it wrote
    \* ---- audio generator (SpecAudio)
    sp_in,        \* the arguments of generate_speech and the collaborators' outcomes
    sp_out,       \* [called, result, tone]: what generate_speech returned / wrote
    \* ---- project coordinator (Spec)
    temp_dir,     \* whether the coordinator's temporary directory exists on disk
    extracted,    \* the extraction directory on disk: file number -> image
    pages,        \* comic_data['pages']
    panels,       \* comic_data['panels']
    animations,   \* comic_data['animations']
    audio,        \* comic_data['audio']
    frame_dirs,   \* the animation directories on disk: dir -> what was written there
    audio_files,  \* the audio files on disk (their paths)
    video_files,  \* the video directory on disk: path -> the clip encoded there
    concat_list,  \* the list render_video handed to combine_videos (last call)
    encoder_log,  \* the requests render_video made to the encoder (last call)
    audio_log,    \* the settings and the requests of the last generate_audio run
    saved,        \* the project file written by save_project (present: there is
                  \* one; in_temp: it lies inside the temporary directory)
    last,         \* [op, result]: the last coordinator call and whether it raised
    done,         \* the coordinator operations that have returned without raising
    \* ---- main window and worker threads (SpecUI)
    input_file,   \* MainWindow.input_file: << >> for None, else << archive >>
    output_file,  \* MainWindow.output_file: << >> for None, else << path >>
    enabled,      \* isEnabled() of generate_button, browse_button, output_button
    dialog,       \* the modal file dialog that is open: "none", "open", "save"
    workers,      \* the WorkerThreads started, in the order they were started
    pending,      \* finished signals emitted and not yet delivered to the slot
    \* ---- video renderer (SpecVideo)
    vr_in,        \* the arguments of one create_video_from_frames call and the fps
    vr_out        \* [called, raised, manifest]: the sequence file it wrote

geoVars   == <<cands, geo_out>>
animVars  == <<an_in, an_out>>
audioVars == <<sp_in, sp_out>>
coordVars == <<temp_dir, extracted, pages, panels, animations, audio, frame_dirs,
               audio_files, video_files, concat_list, encoder_log, audio_log, saved, last, done>>
uiVars    == <<input_file, output_file, enabled, dialog, workers, pending>>
videoVars == <<vr_in, vr_out>>
vars      == <<cands, geo_out, an_in, an_out, sp_in, sp_out, temp_dir, extracted, pages,
               panels, animations, audio, frame_dirs, audio_files, video_files,
               concat_list, encoder_log, audio_log, saved, last, done,
               input_file, output_file, enabled, dialog, workers, pending,
               vr_in, vr_out>>

None == "None"

Min(a, b) == IF a <= b THEN a ELSE b
Max(a, b) == IF a >= b THEN a ELSE b

\* The set of elements of a sequence.
Range(s) == { s[k] : k \in 1..Len(s) }

\* The set of sequences over S of length at most n.
SeqsUpTo(S, n) == UNION { [1..k -> S] : k \in 0..n }

(***************************************************************************)
(*                          PANEL GEOMETRY                                 *)
(***************************************************************************)

\* Bounds of the geometry inputs.
MaxRects  == 3
XRange    == 0..3
Widths    == 1..2
\* (y, h) of a candidate: two rows of height 1 and one box spanning both.
YExtents  == { <<0, 1>>, <<1, 1>>, <<0, 2>> }

RectUniverse ==
    { <<x, ye[1], w, ye[2]>> : x \in XRange, w \in Widths, ye \in YExtents }

RectArea(p) == p[3] * p[4]

\* sorted(panels, key=lambda p: p[2] * p[3], reverse=True): stable, so equal
\* areas keep their input order.
RECURSIVE InsertByAreaDesc(_, _)
InsertByAreaDesc(s, e) ==
    IF s = << >> THEN << e >>
    ELSE IF RectArea(Head(s)) >= RectArea(e)
         THEN << Head(s) >> \o InsertByAreaDesc(Tail(s), e)
         ELSE << e >> \o s

RECURSIVE SortByAreaDesc(_)
SortByAreaDesc(s) ==
    IF s = << >> THEN << >>
    ELSE InsertByAreaDesc(SortByAreaDesc(SubSeq(s, 1, Len(s) - 1)), s[Len(s)])

\* The sort key (p[1], p[0]) of both detectors: y first, then x.
KeyLeqXY(p, q) == p[1] < q[1] \/ (p[1] = q[1] /\ p[2] <= q[2])
KeyLeqYX(p, q) == p[2] < q[2] \/ (p[2] = q[2] /\ p[1] <= q[1])

RECURSIVE InsertByKey_XFirst(_, _)
InsertByKey_XFirst(s, e) ==
    IF s = << >> THEN << e >>
    ELSE IF KeyLeqXY(Head(s), e)
         THEN << Head(s) >> \o InsertByKey_XFirst(Tail(s), e)
         ELSE << e >> \o s

RECURSIVE SortByKey_XFirst(_)
SortByKey_XFirst(s) ==
    IF s = << >> THEN << >>
    ELSE InsertByKey_XFirst(SortByKey_XFirst(SubSeq(s, 1, Len(s) - 1)), s[Len(s)])

RECURSIVE InsertByKey(_, _)
InsertByKey(s, e) ==
    IF s = << >> THEN << e >>
    ELSE IF KeyLeqYX(Head(s), e)
         THEN << Head(s) >> \o InsertByKey(Tail(s), e)
         ELSE << e >> \o s

\* list.sort(key=lambda p: (p[1], p[0])): stable insertion by (y, x).
RECURSIVE SortByKey(_)
SortByKey(s) ==
    IF s = << >> THEN << >>
    ELSE InsertByKey(SortByKey(SubSeq(s, 1, Len(s) - 1)), s[Len(s)])

\* overlap_x * overlap_y of two rectangles (panel_detector.py 136-138).
OverlapArea(p, q) ==
    LET ox == Max(0, Min(p[1] + p[3], q[1] + q[3]) - Max(p[1], q[1]))
        oy == Max(0, Min(p[2] + p[4], q[2] + q[4]) - Max(p[2], q[2]))
    IN  ox * oy

\* A merge test with a threshold of one half instead of 0.3.
OverlapsSignificantly_Half(p, q) ==
    2 * OverlapArea(p, q) > Min(RectArea(p), RectArea(q))

\* overlap_area > overlap_threshold * smaller_area, with overlap_threshold = 0.3.
\* For integer areas below 200 the float comparison agrees with 10*o > 3*s.
OverlapsSignificantly(p, q) ==
    10 * OverlapArea(p, q) > 3 * Min(RectArea(p), RectArea(q))

\* A merge that keeps the first rectangle instead of growing it.
BoundingBox_KeepFirst(p, q) == p

\* The bounding box that encompasses both rectangles (panel_detector.py 147-150).
BoundingBox(p, q) ==
    LET x == Min(p[1], q[1])
        y == Min(p[2], q[2])
    IN  << x, y, Max(p[1] + p[3], q[1] + q[3]) - x, Max(p[2] + p[4], q[2] + q[4]) - y >>

\* The inner loop over j for the seed i: ONE pass over the list; the current
\* merged box (x1, y1, w1, h1) grows as rectangles are absorbed, and rectangles
\* passed earlier are not looked at again. Returns <<merged_panel, used>>.
RECURSIVE MergeScan(_, _, _, _, _)
MergeScan(sorted, used, i, cur, j) ==
    IF j > Len(sorted) THEN << cur, used >>
    ELSE IF used[j] \/ i = j THEN MergeScan(sorted, used, i, cur, j + 1)
    ELSE IF OverlapsSignificantly(cur, sorted[j])
         THEN MergeScan(sorted, [used EXCEPT ![j] = TRUE], i,
                        BoundingBox(cur, sorted[j]), j + 1)
         ELSE MergeScan(sorted, used, i, cur, j + 1)

\* The outer loop over the seeds i, largest area first.
RECURSIVE MergeSeeds(_, _, _, _)
MergeSeeds(sorted, used, i, merged) ==
    IF i > Len(sorted) THEN merged
    ELSE IF used[i] THEN MergeSeeds(sorted, used, i + 1, merged)
    ELSE LET r == MergeScan(sorted, [used EXCEPT ![i] = TRUE], i, sorted[i], 1)
         IN  MergeSeeds(sorted, r[2], i + 1, Append(merged, r[1]))

\* PanelDetector._merge_overlapping_panels(panels, overlap_threshold=0.3)
MergeOverlappingPanels(ps) ==
    IF ps = << >> THEN << >>
    ELSE LET sorted == SortByAreaDesc(ps)
         IN  MergeSeeds(sorted, [k \in 1..Len(sorted) |-> FALSE], 1, << >>)

\* The tail of PanelDetector.detect: merge the surviving rectangles, then sort.
Detect(ps) == SortByKey(MergeOverlappingPanels(ps))

\* The tail of ImageProcessor.detect_panels: sort the bounding rectangles.
DetectPanels(ps) == SortByKey(ps)

GeoIdle == /\ cands = << >>
           /\ geo_out = [op |-> None, result |-> << >>]

InitGeo == /\ cands \in SeqsUpTo(RectUniverse, MaxRects)
           /\ geo_out = [op |-> None, result |-> << >>]

CallMerge ==
    /\ geo_out' = [op |-> "merge", result |-> MergeOverlappingPanels(cands)]
    /\ UNCHANGED <<cands, animVars, audioVars, coordVars, uiVars, videoVars>>

CallDetect ==
    /\ geo_out' = [op |-> "detect", result |-> Detect(cands)]
    /\ UNCHANGED <<cands, animVars, audioVars, coordVars, uiVars, videoVars>>

CallDetectPanels ==
    /\ geo_out' = [op |-> "detect_panels", result |-> DetectPanels(cands)]
    /\ UNCHANGED <<cands, animVars, audioVars, coordVars, uiVars, videoVars>>

(***************************************************************************)
(*                              ANIMATOR                                   *)
(***************************************************************************)

\* A duration is a fraction <<n, d>> of a second with d a power of two, and fps
\* is an integer, so that duration * fps is exact in binary floating point.
DurationChoices == { <<0, 1>>, <<1, 8>>, <<3, 8>>, <<1, 2>>, <<2, 1>> }
FpsChoices      == { 1, 10, 24 }
\* Image sizes (width, height) on which the float arithmetic of the crop
\* computation agrees with the exact arithmetic used here.
ImageDims       == { <<4, 4>>, <<5, 3>> }

\* The regions of positive size that lie inside an image of size dim.
RegionsInside(dim) ==
    { r \in (0..dim[1]) \X (0..dim[2]) \X (1..dim[1]) \X (1..dim[2]) :
          r[1] + r[3] <= dim[1] /\ r[2] + r[4] <= dim[2] }

\* total_frames = int(duration * self.fps)
TotalFrames(duration, fps) == (duration[1] * fps) \div duration[2]

\* Python's round(duration * fps): to nearest, halves to even.
RoundHalfEven(n, d) ==
    LET q == n \div d
        r == n % d
    IN  IF 2 * r < d THEN q
        ELSE IF 2 * r > d THEN q + 1
        ELSE IF q % 2 = 0 THEN q ELSE q + 1

\* A quadratic ease-in only: f = t * t.
Ease_InOnly(i, n) ==
    IF n <= 1 THEN << 0, 1 >> ELSE << i * i, (n - 1) * (n - 1) >>

\* The ease-in-out factor f of frame i of n, as the fraction <<num, den>>:
\* t = i / (n - 1) if n > 1 else 0; f = 2*t*t if t < 0.5 else 1 - (-2*t + 2)^2 / 2.
Ease(i, n) ==
    IF n <= 1 THEN << 0, 1 >>
    ELSE LET m == n - 1
         IN  IF 2 * i < m THEN << 2 * i * i, m * m >>
             ELSE << m * m - 2 * (m - i) * (m - i), m * m >>

\* end_zoom = min(width / w, height / h) * 0.8, as a fraction. No clamp.
EndZoom(dim, region) ==
    IF dim[1] * region[4] <= dim[2] * region[3]
    THEN << 4 * dim[1], 5 * region[3] >>
    ELSE << 4 * dim[2], 5 * region[4] >>

\* end_x = max(0, x - (width / end_zoom - w) / 2) (and end_y alike), as a
\* fraction: size is width or height, pos is x or y, ext is w or h.
EndOrigin(size, pos, ext, ez) ==
    << Max(0, 2 * pos * ez[1] - size * ez[2] + ext * ez[1]), 2 * ez[1] >>

\* One frame of create_pan_and_scan with a region: the crop <<x, y, cw, ch>>
\* taken from the image (animator.py 89-113).
PanAndScanCrop(dim, region, n, i) ==
    LET f   == Ease(i, n)
        ez  == EndZoom(dim, region)
        \* zoom = start_zoom + f * (end_zoom - start_zoom), start_zoom = 1.0
        zn  == f[2] * ez[2] + f[1] * (ez[1] - ez[2])
        zd  == f[2] * ez[2]
        ex  == EndOrigin(dim[1], region[1], region[3], ez)
        ey  == EndOrigin(dim[2], region[2], region[4], ez)
        cw  == (dim[1] * zd) \div zn
        ch  == (dim[2] * zd) \div zn
        x   == (f[1] * ex[1]) \div (f[2] * ex[2])
        y   == (f[1] * ey[1]) \div (f[2] * ey[2])
    IN  << Min(Max(0, x), dim[1] - cw), Min(Max(0, y), dim[2] - ch), cw, ch >>

\* create_pan_and_scan(image_path, region, duration): the crops of the frames
\* frame_0000 .. in order.
CreatePanAndScan(dim, region, duration, fps) ==
    LET n == TotalFrames(duration, fps)
    IN  [ j \in 1..n |-> PanAndScanCrop(dim, region, n, j - 1) ]

\* max_x_offset = int(width * (max(start_scale, end_scale) - 1)), scales 1.0/1.3
MaxOffset(size) == (3 * size) \div 10

\* create_ken_burns_effect: frame i is <<scale, x_offset, y_offset>> with the
\* scale a fraction; zoom_in and the four offsets are the random draws.
KenBurnsFrame(zoom_in, sx, sy, ex, ey, n, i) ==
    LET m == IF n > 1 THEN n - 1 ELSE 1
        t == IF n > 1 THEN i ELSE 0
    IN  << IF zoom_in THEN << 10 * m + 3 * t, 10 * m >>
                      ELSE << 13 * m - 3 * t, 10 * m >>,
           (sx * m + t * (ex - sx)) \div m,
           (sy * m + t * (ey - sy)) \div m >>

CreateKenBurnsEffect(zoom_in, sx, sy, ex, ey, duration, fps) ==
    LET n == TotalFrames(duration, fps)
    IN  [ j \in 1..n |-> KenBurnsFrame(zoom_in, sx, sy, ex, ey, n, j - 1) ]

\* create_panel_transition: frame i carries its interpolation factor
\* t = i / (total_frames - 1) if total_frames > 1 else 0, as a fraction.
CreatePanelTransition(duration, fps) ==
    LET n == TotalFrames(duration, fps)
    IN  [ j \in 1..n |-> IF n > 1 THEN << j - 1, n - 1 >> ELSE << 0, 1 >> ]

\* The columns of the two page images of a transition, numbered from 0, and
\* a column of np.zeros_like(from_image).
FromColumn(c) == << "from", c >>
ToColumn(c)   == << "to", c >>
ZeroColumn    == << "zero", 0 >>

\* One frame of the 'slide' transition between two images of width w at the
\* interpolation factor t (animator.py 264-271), as its columns from left to
\* right: frame starts as zeros, offset = int(w * t), and the two slice
\* assignments run only when offset > 0 and when offset < w.
SlideFrame(w, t) ==
    LET offset == (w * t[1]) \div t[2]
    IN  [ k \in 1..w |->
            LET c == k - 1
            IN  IF offset > 0 /\ c < w - offset THEN FromColumn(c + offset)
                ELSE IF offset < w /\ c >= w - offset THEN ToColumn(c - (w - offset))
                ELSE ZeroColumn ]

\* create_panel_transition(from, to, transition_type='slide', duration) on
\* images of width w: the frames, each as its columns.
CreateSlideTransition(w, duration, fps) ==
    LET ts == CreatePanelTransition(duration, fps)
    IN  [ j \in 1..Len(ts) |-> SlideFrame(w, ts[j]) ]

AnimIdle == /\ an_in = [dim |-> <<4, 4>>, region |-> <<0, 0, 1, 1>>,
                        duration |-> <<0, 1>>, fps |-> 1]
            /\ an_out = [op |-> None, frames |-> << >>]

InitAnim ==
    /\ \E d \in ImageDims :
          an_in \in [dim : {d}, region : RegionsInside(d),
                     duration : DurationChoices, fps : FpsChoices]
    /\ an_out = [op |-> None, frames |-> << >>]

CallPanAndScan ==
    /\ an_out' = [op |-> "pan_and_scan",
                  frames |-> CreatePanAndScan(an_in.dim, an_in.region, an_in.duration, an_in.fps)]
    /\ UNCHANGED <<an_in, geoVars, audioVars, coordVars, uiVars, videoVars>>

CallKenBurns ==
    /\ \E zoom_in \in BOOLEAN :
       \E sx, ex \in 0..(Max(1, MaxOffset(an_in.dim[1])) - 1) :
       \E sy, ey \in 0..(Max(1, MaxOffset(an_in.dim[2])) - 1) :
          an_out' = [op |-> "ken_burns",
                     frames |-> CreateKenBurnsEffect(zoom_in, sx, sy, ex, ey,
                                                     an_in.duration, an_in.fps)]
    /\ UNCHANGED <<an_in, geoVars, audioVars, coordVars, uiVars, videoVars>>

CallPanelTransition ==
    /\ an_out' = [op |-> "transition",
                  frames |-> CreatePanelTransition(an_in.duration, an_in.fps)]
    /\ UNCHANGED <<an_in, geoVars, audioVars, coordVars, uiVars, videoVars>>

CallSlideTransition ==
    /\ an_out' = [op |-> "slide",
                  frames |-> CreateSlideTransition(an_in.dim[1], an_in.duration, an_in.fps)]
    /\ UNCHANGED <<an_in, geoVars, audioVars, coordVars, uiVars, videoVars>>


(***************************************************************************)
(*                          AUDIO GENERATOR                                *)
(***************************************************************************)

\* A text is modelled by text.split(), its list of whitespace-separated words:
\* it is blank ("" or only whitespace) exactly when it has no words.
Words    == { "hello", "door", "BAM!" }
MaxWords == 3
Texts    == SeqsUpTo(Words, MaxWords)

\* not text or text.isspace()
IsBlank(text) == text = << >>

\* len(text.split())
WordCount(text) == Len(text)

\* The result of a call that returns a path or None. A propagating exception
\* is the status "Raise"; the path of a call that returned none is << >>.
ReturnPath(path) == [status |-> "path", path |-> path]
ReturnNone       == [status |-> "None", path |-> << >>]
Raised           == [status |-> "Raise", path |-> << >>]

\* AudioGenerator._generate_speech_fallback(text, output_path): a sine tone of
\* 0.1 * len(text.split()) seconds (here in tenths of a second), or None when
\* writing it fails.
GenerateSpeechFallback(text, output_path, fb_ok) ==
    IF fb_ok
    THEN [ret |-> ReturnPath(output_path),
          file |-> [kind |-> "tone", tenths |-> WordCount(text)]]
    ELSE [ret |-> ReturnNone, file |-> [kind |-> None, tenths |-> 0]]

\* A generate_speech whose except clause re-raises instead of falling back.
GenerateSpeech_NoFallback(text, output_path, tts_ok, fb_ok) ==
    IF IsBlank(text) THEN [ret |-> ReturnNone, file |-> [kind |-> None, tenths |-> 0]]
    ELSE IF tts_ok
         THEN [ret |-> ReturnPath(output_path), file |-> [kind |-> "tts", tenths |-> 0]]
         ELSE [ret |-> Raised, file |-> [kind |-> None, tenths |-> 0]]

\* A generate_speech whose fallback tone lasts a fixed tenth of a second.
GenerateSpeech_FixedTone(text, output_path, tts_ok, fb_ok) ==
    IF IsBlank(text) THEN [ret |-> ReturnNone, file |-> [kind |-> None, tenths |-> 0]]
    ELSE IF tts_ok
         THEN [ret |-> ReturnPath(output_path), file |-> [kind |-> "tts", tenths |-> 0]]
         ELSE IF fb_ok
              THEN [ret |-> ReturnPath(output_path), file |-> [kind |-> "tone", tenths |-> 1]]
              ELSE [ret |-> ReturnNone, file |-> [kind |-> None, tenths |-> 0]]

\* AudioGenerator.generate_speech(text, output_path, ...): tts_ok says whether
\* the text-to-speech service call succeeds, fb_ok whether the fallback tone can
\* be written. ret is what is returned, file what was written to output_path
\* (the length of a synthesized file is the service's, not modelled: 0).
GenerateSpeech(text, output_path, tts_ok, fb_ok) ==
    IF IsBlank(text) THEN [ret |-> ReturnNone, file |-> [kind |-> None, tenths |-> 0]]
    ELSE IF tts_ok
         THEN [ret |-> ReturnPath(output_path), file |-> [kind |-> "tts", tenths |-> 0]]
         ELSE GenerateSpeechFallback(text, output_path, fb_ok)

SpeechIdle ==
    /\ sp_in = [text |-> << >>, tts_ok |-> TRUE, fb_ok |-> TRUE]
    /\ sp_out = [called |-> FALSE, ret |-> ReturnNone, file |-> [kind |-> None, tenths |-> 0]]

InitSpeech ==
    /\ sp_in \in [text : Texts, tts_ok : BOOLEAN, fb_ok : BOOLEAN]
    /\ sp_out = [called |-> FALSE, ret |-> ReturnNone, file |-> [kind |-> None, tenths |-> 0]]

CallGenerateSpeech ==
    /\ LET r == GenerateSpeech(sp_in.text, << "speech.mp3" >>, sp_in.tts_ok, sp_in.fb_ok)
       IN  sp_out' = [called |-> TRUE, ret |-> r.ret, file |-> r.file]
    /\ UNCHANGED <<sp_in, geoVars, animVars, coordVars, uiVars, videoVars>>


(***************************************************************************)
(*                           VIDEO RENDERER                                *)
(***************************************************************************)

\* Exact rationals <<numerator, denominator>> in lowest terms.
RECURSIVE Gcd(_, _)
Gcd(a, b) == IF b = 0 THEN a ELSE Gcd(b, a % b)

Reduced(q) == LET g == Gcd(q[1], q[2]) IN IF g = 0 THEN q ELSE << q[1] \div g, q[2] \div g >>

RatEq(p, q) == p[1] * q[2] = q[1] * p[2]

\* The frame paths, per-frame durations and fps settings a call is tried with.
MaxFrames      == 3
FrameNames     == { "frame_0000.jpg", "frame_0001.jpg", "frame_0002.jpg" }
FrameDurations == { None, <<1, 8>>, <<1, 2>> }
RenderFps      == { 24, 30, 60 }

\* A sequence data that leaves out the last frame.
SequenceData_DropLast(frame_paths, frame_duration, fps) ==
    [ k \in 1..(Len(frame_paths) - 1) |->
        [frame    |-> frame_paths[k],
         duration |-> IF frame_duration = None THEN << 1, fps >> ELSE frame_duration] ]

\* create_video_from_frames 76-93: one entry per frame path, in the order of
\* frame_paths, with the given frame_duration or 1.0 / self.fps.
SequenceData(frame_paths, frame_duration, fps) ==
    [ k \in 1..Len(frame_paths) |->
        [frame    |-> frame_paths[k],
         duration |-> IF frame_duration = None THEN << 1, fps >> ELSE frame_duration] ]

\* VideoRenderer.create_sequence_file(sequence_data, output_path): the lines
\* written, "file '<frame>'" then "duration <duration>" for every item.
CreateSequenceFile(sequence_data) ==
    [ j \in 1..(2 * Len(sequence_data)) |->
        IF j % 2 = 1
        THEN [line |-> "file", value |-> sequence_data[(j + 1) \div 2].frame]
        ELSE [line |-> "duration", value |-> sequence_data[j \div 2].duration] ]

\* The sequence file create_video_from_frames writes before it calls the
\* encoder; an empty frame list raises before anything is written.
CreateVideoManifest(frame_paths, frame_duration, fps) ==
    IF frame_paths = << >>
    THEN [raised |-> TRUE, manifest |-> << >>]
    ELSE [raised |-> FALSE,
          manifest |-> CreateSequenceFile(SequenceData(frame_paths, frame_duration, fps))]

VideoIdle ==
    /\ vr_in = [frame_paths |-> << >>, frame_duration |-> None, fps |-> 24]
    /\ vr_out = [called |-> FALSE, raised |-> FALSE, manifest |-> << >>]

InitVideo ==
    /\ vr_in \in [frame_paths : SeqsUpTo(FrameNames, MaxFrames),
                  frame_duration : FrameDurations, fps : RenderFps]
    /\ vr_out = [called |-> FALSE, raised |-> FALSE, manifest |-> << >>]

CallCreateVideoFromFrames ==
    /\ ~vr_out.called
    /\ LET r == CreateVideoManifest(vr_in.frame_paths, vr_in.frame_duration, vr_in.fps)
       IN  vr_out' = [called |-> TRUE, raised |-> r.raised, manifest |-> r.manifest]
    /\ UNCHANGED <<vr_in, geoVars, animVars, audioVars, coordVars, uiVars>>

(***************************************************************************)
(*                        PROJECT COORDINATOR                              *)
(***************************************************************************)

\* dict[key] = value on a function used as a dict; << >> is the empty dict.
Put(f, k, v) == (k :> v) @@ f

\* ---- the inputs: page images and archives --------------------------------

\* A page image is described by what the image library and the OCR engine
\* return on it: whether cv2.imread can load it, its size, the bounding
\* rectangles of its contours in contour order, and per rectangle the OCR text
\* and the speech bubbles (bounding box and text) found inside.
NoBubbles == << >>
ImageNames == { "A", "B", "C", "D", "X" }
ImageDesc(name) ==
    CASE name = "A" ->
           [readable |-> TRUE, dim |-> <<4, 4>>,
            contours |-> << <<2, 0, 2, 2>>, <<0, 0, 4, 4>>, <<0, 0, 2, 2>> >>,
            text     |-> ( <<0, 0, 2, 2>> :> << "hello" >> ) @@
                         ( <<2, 0, 2, 2>> :> << >> ) @@
                         ( <<0, 0, 4, 4>> :> << "hello" >> ),
            bubbles  |-> ( <<0, 0, 2, 2>> :> << [region |-> <<0, 0, 1, 1>>, text |-> << >>],
                                                [region |-> <<1, 0, 1, 1>>, text |-> << >>] >> ) @@
                         ( <<2, 0, 2, 2>> :> << [region |-> <<0, 0, 1, 1>>, text |-> << "BAM!" >>],
                                                [region |-> <<1, 1, 1, 1>>, text |-> << "door" >>] >> ) @@
                         ( <<0, 0, 4, 4>> :> NoBubbles )]
      [] name = "B" ->
           [readable |-> TRUE, dim |-> <<5, 3>>,
            contours |-> << <<0, 0, 4, 3>> >>,
            text     |-> ( <<0, 0, 4, 3>> :> << "BAM!", "door" >> ),
            bubbles  |-> ( <<0, 0, 4, 3>> :> << [region |-> <<0, 0, 2, 1>>, text |-> << >>],
                                                [region |-> <<2, 1, 2, 1>>, text |-> << >>] >> )]
      [] name = "C" ->
           [readable |-> TRUE, dim |-> <<4, 4>>,
            contours |-> << <<1, 1, 2, 2>> >>,
            text     |-> ( <<1, 1, 2, 2>> :> << >> ),
            bubbles  |-> ( <<1, 1, 2, 2>> :> NoBubbles )]
      [] name = "D" ->
           [readable |-> TRUE, dim |-> <<4, 4>>,
            contours |-> << <<0, 0, 2, 2>> >>,
            text     |-> ( <<0, 0, 2, 2>> :> << "hello" >> ),
            bubbles  |-> ( <<0, 0, 2, 2>> :> NoBubbles )]
      [] OTHER ->
           [readable |-> FALSE, dim |-> <<4, 4>>, contours |-> << >>,
            text |-> << >>, bubbles |-> << >>]

\* An archive holds image files named by their page number (the natural sort
\* of the file names is the numeric order); files of one number share a name.
\* The archives tried: an empty one, one page with two panels, one unreadable
\* page, two pages of one panel each of which one has no text, and two pages
\* of one panel each that both have text.
ArchiveContents ==
    { << >>, (1 :> "A"), (1 :> "X"), (1 :> "B") @@ (2 :> "C"),
      (1 :> "D") @@ (2 :> "B") }
Archives ==
    [kind : { "cbz", "cbr" }, files : ArchiveContents]
      \cup [kind : { "other", "missing" }, files : { << >> }]

\* ---- extract_comic --------------------------------------------------------

\* ComicFileExtractor._get_sorted_image_files: every image file found under the
\* extraction directory, in natural order.
RECURSIVE SortedFileNumbers(_)
SortedFileNumbers(nums) ==
    IF nums = {} THEN << >>
    ELSE LET lo == CHOOSE n \in nums : \A m \in nums : n <= m
         IN  << lo >> \o SortedFileNumbers(nums \ {lo})

\* An extractor that treats a file of any other extension as an empty zip.
Extract_AnyExtension(archive, dir, rar_ok) ==
    IF archive.kind = "missing"
    THEN [raised |-> TRUE, error |-> "FileNotFoundError", dir |-> dir, image_files |-> << >>]
    ELSE IF archive.kind = "cbr" /\ ~rar_ok
    THEN [raised |-> TRUE, error |-> "RuntimeError", dir |-> dir, image_files |-> << >>]
    ELSE LET newdir == archive.files @@ dir
         IN  [raised |-> FALSE, error |-> "", dir |-> newdir,
              image_files |-> SortedFileNumbers(DOMAIN newdir)]

\* ComicFileExtractor.extract(file_path, output_dir): raises on a missing file,
\* on an extension other than .cbz/.cbr and when neither unrar nor 7z unpacks a
\* .cbr; otherwise unpacks into output_dir, over whatever is there already.
Extract(archive, dir, rar_ok) ==
    IF archive.kind = "missing"
    THEN [raised |-> TRUE, error |-> "FileNotFoundError", dir |-> dir, image_files |-> << >>]
    ELSE IF archive.kind = "cbr" /\ ~rar_ok
    THEN [raised |-> TRUE, error |-> "RuntimeError", dir |-> dir, image_files |-> << >>]
    ELSE IF archive.kind \notin { "cbz", "cbr" }
    THEN [raised |-> TRUE, error |-> "ValueError", dir |-> dir, image_files |-> << >>]
    ELSE LET newdir == archive.files @@ dir
         IN  [raised |-> FALSE, error |-> "", dir |-> newdir,
              image_files |-> SortedFileNumbers(DOMAIN newdir)]

\* The page records extract_comic builds from the image files.
PageRecords(image_files) ==
    [ k \in 1..Len(image_files) |->
        [id |-> << "page", k - 1 >>, path |-> image_files[k], index |-> k - 1] ]

\* What the last call did: n is its number among the calls made on the
\* coordinator, units counts the passes of its loop (0 where the operation has
\* none or that is not followed), raised names the exception class that left
\* the call ("" for none, "Exception" where the class is not followed).
Returned(op) ==
    [op |-> op, result |-> "ok", raised |-> "", units |-> 0, n |-> last.n + 1]
Failed(op) ==
    [op |-> op, result |-> "error", raised |-> "Exception", units |-> 0, n |-> last.n + 1]

\* The calls made on one coordinator are followed up to this many.
MaxCalls == 5

ExtractComic(archive, rar_ok) ==
    LET r == Extract(archive, extracted, rar_ok)
    IN  /\ extracted' = r.dir
        /\ temp_dir' = (temp_dir \/ r.error # "FileNotFoundError")
        /\ IF r.raised
           THEN /\ last' = [Failed("extract_comic") EXCEPT !.raised = r.error]
                /\ UNCHANGED <<pages, done>>
           ELSE /\ pages' = PageRecords(r.image_files)
                /\ last' = Returned("extract_comic")
                /\ done' = done \cup { "extract_comic" }
        /\ UNCHANGED <<panels, animations, audio, frame_dirs, audio_files,
                       video_files, concat_list, encoder_log, audio_log, saved>>

\* ---- process_pages --------------------------------------------------------

\* min_area <= panel_area <= max_area with min_panel_size = 0.01 and
\* max_panel_size = 0.9 of the image area.
WithinPanelSize(p, dim) ==
    LET image_area == dim[1] * dim[2]
    IN  100 * RectArea(p) >= image_area /\ 10 * RectArea(p) <= 9 * image_area

\* The panels process_image keeps of the image img.
FilteredPanels(img) ==
    SelectSeq(DetectPanels(img.contours), LAMBDA p : WithinPanelSize(p, img.dim))

\* The number of extract_text calls process_image makes on img: one per kept
\* panel and one per bubble found in it.
RECURSIVE OcrCallsFrom(_, _)
OcrCallsFrom(img, k) ==
    IF k > Len(FilteredPanels(img)) THEN 0
    ELSE 1 + Len(img.bubbles[FilteredPanels(img)[k]]) + OcrCallsFrom(img, k + 1)

OcrCalls(img) == IF img.readable THEN OcrCallsFrom(img, 1) ELSE 0

\* ImageProcessor.process_image(image_path) on the image img: the panel dicts,
\* numbered panel_0, panel_1, ... within the page, or a raise when the image
\* cannot be loaded or when pytesseract raises in the ocr_fail-th extract_text
\* call made on this image (0: in none), which extract_text does not catch.
ProcessImage(img, ocr_fail) ==
    IF ~img.readable THEN [raised |-> TRUE, error |-> "ValueError", panels |-> << >>]
    ELSE IF ocr_fail \in 1..OcrCalls(img)
    THEN [raised |-> TRUE, error |-> "TesseractError", panels |-> << >>]
    ELSE LET filtered == FilteredPanels(img)
         IN  [raised |-> FALSE, error |-> "",
              panels |->
                [ k \in 1..Len(filtered) |->
                    [id      |-> << "panel", k - 1 >>,
                     region  |-> filtered[k],
                     text    |-> img.text[filtered[k]],
                     bubbles |->
                        [ j \in 1..Len(img.bubbles[filtered[k]]) |->
                            [id     |-> << "bubble", k - 1, j - 1 >>,
                             region |-> img.bubbles[filtered[k]][j].region,
                             text   |-> img.bubbles[filtered[k]][j].text] ]] ]]

\* The image stored at a page's path; a file that is no longer there cannot be
\* loaded (cv2.imread returns None).
ImageAt(path) ==
    ImageDesc(IF path \in DOMAIN extracted THEN extracted[path] ELSE "no file")

\* The loop of process_pages from page k on: the panels of every page, tagged
\* with page_id and page_index, appended in page order. ocr_fail is the number
\* of the OCR call that fails, counted from the first call still to be made.
RECURSIVE ProcessLoop(_, _, _)
ProcessLoop(k, panels_data, ocr_fail) ==
    IF k > Len(pages)
    THEN [raised |-> FALSE, error |-> "", panels |-> panels_data, visited |-> k - 1]
    ELSE LET page_data == ProcessImage(ImageAt(pages[k].path), ocr_fail)
         IN  IF page_data.raised
             THEN [raised |-> TRUE, error |-> page_data.error, panels |-> panels_data,
                   visited |-> k - 1]
             ELSE ProcessLoop(k + 1,
                    panels_data \o
                    [ j \in 1..Len(page_data.panels) |->
                        [id         |-> page_data.panels[j].id,
                         region     |-> page_data.panels[j].region,
                         text       |-> page_data.panels[j].text,
                         bubbles    |-> page_data.panels[j].bubbles,
                         page_id    |-> pages[k].id,
                         page_index |-> pages[k].index] ],
                    IF ocr_fail = 0 THEN 0
                    ELSE ocr_fail - OcrCalls(ImageAt(pages[k].path)))

\* The OCR calls process_pages makes when none of them fails.
RECURSIVE TotalOcrCalls(_)
TotalOcrCalls(k) ==
    IF k > Len(pages) \/ ~ImageAt(pages[k].path).readable THEN 0
    ELSE OcrCalls(ImageAt(pages[k].path)) + TotalOcrCalls(k + 1)

\* A process_pages that stores the panels gathered so far when it raises.
ProcessPages_StorePartial(ocr_fail) ==
    LET r == IF pages = << >>
             THEN [raised |-> TRUE, error |-> "ValueError", panels |-> << >>, visited |-> 0]
             ELSE ProcessLoop(1, << >>, ocr_fail)
    IN  /\ panels' = r.panels
        /\ IF r.raised
           THEN /\ last' = [Failed("process_pages") EXCEPT !.raised = r.error,
                                                          !.units = r.visited]
                /\ UNCHANGED done
           ELSE /\ last' = [Returned("process_pages") EXCEPT !.units = r.visited]
                /\ done' = done \cup { "process_pages" }
        /\ UNCHANGED <<temp_dir, extracted, pages, animations, audio, frame_dirs,
                       audio_files, video_files, concat_list, encoder_log, audio_log, saved>>

ProcessPages(ocr_fail) ==
    LET r == IF pages = << >>
             THEN [raised |-> TRUE, error |-> "ValueError", panels |-> << >>, visited |-> 0]
             ELSE ProcessLoop(1, << >>, ocr_fail)
    IN  /\ IF r.raised
           THEN /\ last' = [Failed("process_pages") EXCEPT !.raised = r.error,
                                                          !.units = r.visited]
                /\ UNCHANGED <<panels, done>>
           ELSE /\ panels' = r.panels
                /\ last' = [Returned("process_pages") EXCEPT !.units = r.visited]
                /\ done' = done \cup { "process_pages" }
        /\ UNCHANGED <<temp_dir, extracted, pages, animations, audio, frame_dirs,
                       audio_files, video_files, concat_list, encoder_log, audio_log, saved>>


\* ---- create_animations ----------------------------------------------------

\* Animator() as the coordinator builds it: fps=24.
AnimatorFps == 24

AnimationSettings ==
    [animation_style     : { "pan_and_scan", "ken_burns_effect", "mixed" },
     panel_duration      : { <<5, 2>> },
     transition_duration : { <<1, 2>> },
     animation_speed     : { 1, 2 }]

\* panel_duration / speed_factor
Scaled(duration, speed_factor) == << duration[1], duration[2] * speed_factor >>

\* A frame list [dir/frame_0000.jpg, ..., dir/frame_{n-1}.jpg] is the record
\* [dir, n]. What an effect generator leaves in its output directory is the
\* record [unit, src, effect, n, duration]: the loop index of the work unit
\* that wrote the frames, the page image(s) they were made from, the effect,
\* their number, and the duration the generator was asked for.
FrameList(dir, n) == [dir |-> dir, n |-> n]

\* One panel's pass through the loop of create_animations (the panel at index
\* i, counted from 0). use_pan is the coin of the 'mixed' style. Raises when
\* the panel's page index is beyond the page list or an image cannot be loaded.
AnimatePanel(i, settings, use_pan, anims, dirs) ==
    LET panel    == panels[i + 1]
        panel_id == panel.id
        pdur     == Scaled(settings.panel_duration, settings.animation_speed)
        tdur     == Scaled(settings.transition_duration, settings.animation_speed)
        kb       == \/ settings.animation_style = "ken_burns_effect"
                    \/ (settings.animation_style = "mixed" /\ ~use_pan)
        fail     == [raised |-> TRUE, anims |-> anims, dirs |-> dirs]
    IN  IF panel.page_index + 1 > Len(pages) THEN fail
        ELSE
        LET page_path == pages[panel.page_index + 1].path
            n         == TotalFrames(pdur, AnimatorFps)
        IN  IF ~ImageAt(page_path).readable THEN fail
            ELSE
            LET dirs1 == Put(dirs, panel_id,
                             [unit |-> i, src |-> << page_path >>,
                              effect |-> IF kb THEN "ken_burns" ELSE "pan_and_scan",
                              n |-> n, duration |-> pdur])
                entry == [frames |-> FrameList(panel_id, n), panel_index |-> i,
                          type |-> "panel"]
            IN  IF i = 0
                THEN [raised |-> FALSE, anims |-> Put(anims, panel_id, entry),
                      dirs |-> dirs1]
                ELSE
                LET prev_panel == panels[i]
                    tkey       == << "transition", i >>
                    tn         == TotalFrames(tdur, AnimatorFps)
                IN  IF prev_panel.page_index + 1 > Len(pages)
                    THEN [raised |-> TRUE, anims |-> anims, dirs |-> dirs1]
                    ELSE
                    LET prev_page_path == pages[prev_panel.page_index + 1].path
                    IN  IF ~ImageAt(prev_page_path).readable
                        THEN [raised |-> TRUE, anims |-> anims, dirs |-> dirs1]
                        ELSE [raised |-> FALSE,
                              anims |->
                                Put(Put(anims, tkey,
                                        [frames |-> FrameList(tkey, tn),
                                         from_panel |-> prev_panel.id,
                                         to_panel |-> panel_id,
                                         type |-> "transition"]),
                                    panel_id, entry),
                              dirs |->
                                Put(dirs1, tkey,
                                    [unit |-> i, src |-> << prev_page_path, page_path >>,
                                     effect |-> "fade", n |-> tn, duration |-> tdur])]

\* for i, panel in enumerate(self.comic_data['panels']), from index i on.
RECURSIVE AnimateLoop(_, _, _, _, _)
AnimateLoop(i, settings, coins, anims, dirs) ==
    IF i >= Len(panels) THEN [raised |-> FALSE, anims |-> anims, dirs |-> dirs]
    ELSE LET r == AnimatePanel(i, settings, coins[i + 1], anims, dirs)
         IN  IF r.raised THEN r
             ELSE AnimateLoop(i + 1, settings, coins, r.anims, r.dirs)

CreateAnimations(settings, coins) ==
    LET r == IF panels = << >>
             THEN [raised |-> TRUE, anims |-> << >>, dirs |-> frame_dirs]
             ELSE AnimateLoop(0, settings, coins, << >>, frame_dirs)
    IN  /\ frame_dirs' = r.dirs
        /\ temp_dir' = (temp_dir \/ panels # << >>)
        /\ IF r.raised
           THEN /\ last' = Failed("create_animations")
                /\ UNCHANGED <<animations, done>>
           ELSE /\ animations' = r.anims
                /\ last' = Returned("create_animations")
                /\ done' = done \cup { "create_animations" }
        /\ UNCHANGED <<extracted, pages, panels, audio, audio_files,
                       video_files, concat_list, encoder_log, audio_log, saved>>


\* ---- generate_audio -------------------------------------------------------

AudioSettings ==
    [voice_name : { "en-US-Neural2-F", "mixed" }, enable_sound_effects : BOOLEAN]

\* settings.get('voice_name', 'en-US-Neural2-F'), settings.get('enable_sound_effects', True)
DefaultAudioSettings == [voice_name |-> "en-US-Neural2-F", enable_sound_effects |-> TRUE]

\* keyword.lower() in text_content.lower() for some keyword of action_keywords:
\* no keyword holds whitespace, so a match lies inside one word. Of the words
\* used here only "BAM!" contains one ('bam').
ContainsKeyword(word) == word = "BAM!"
HasKeyword(text) == \E k \in 1..Len(text) : ContainsKeyword(text[k])

\* AudioGenerator.generate_sound_effect(effect_type, output_path): writes the
\* file and returns its path, or returns None when writing fails.
GenerateSoundEffect(output_path, sfx_ok) ==
    IF sfx_ok THEN ReturnPath(output_path) ELSE ReturnNone

\* AudioGenerator.combine_audio_tracks(audio_paths, output_path): None for an
\* empty list, and None when a track cannot be loaded (it is not on disk, or
\* decoding fails) or the export fails.
CombineAudioTracks(audio_paths, output_path, files, comb_ok) ==
    IF audio_paths = << >> THEN ReturnNone
    ELSE IF comb_ok /\ \A k \in 1..Len(audio_paths) : audio_paths[k] \in files
         THEN ReturnPath(output_path)
         ELSE ReturnNone

\* text_content: the panel's text, then " " + text for every non-blank bubble.
RECURSIVE BubbleTexts(_)
BubbleTexts(bubbles) ==
    IF bubbles = << >> THEN << >>
    ELSE Head(bubbles).text \o BubbleTexts(Tail(bubbles))

TextContent(panel) == panel.text \o BubbleTexts(panel.bubbles)

\* The outcomes of the external calls made for one panel, call by call.
\* e.tts_failed holds the generate_speech calls whose service call fails and
\* e.fb_failed those whose fallback tone cannot be written: the call for the
\* bubble b (counted from 0) is call b + 1, the one call for the whole panel is
\* call 1. e.sfx_ok says whether the sound effect is written, and e.comb_failed
\* holds the combine_audio_tracks calls that fail, named by their output file.
CallOutcomes(panel) ==
    LET calls == 1..(IF Len(panel.bubbles) > 1 THEN Len(panel.bubbles) ELSE 1)
    IN  [tts_failed : SUBSET calls, fb_failed : SUBSET calls, sfx_ok : BOOLEAN,
         comb_failed : SUBSET { "panel_speech.mp3", "combined.mp3" }]

\* One call generate_audio made to the audio generator, as the ghost variable
\* audio_log records it: unit is the position of the panel in the panel list
\* (from 0), input the text spoken or the tracks combined.
\* tenths is the length of the file written, in tenths of a second (0 when
\* nothing was written, and for a synthesized file, whose length is the
\* service's).
AudioRequest(kind, unit, input, output, ok, tenths) ==
    [request |-> kind, unit |-> unit, input |-> input, output |-> output, ok |-> ok,
     tenths |-> tenths]

\* generate_sound_effect(effect_type, output_path, duration=1.0): the
\* coordinator passes no duration, the effect lasts one second.
SoundEffectTenths == 10

\* The length of the file at path: that of the last successful request of log
\* that wrote it (0 when this run did not write it).
TrackTenths(log, path) ==
    LET wrote == { j \in 1..Len(log) : log[j].ok /\ log[j].output = path }
    IN  IF wrote = {} THEN 0
        ELSE log[CHOOSE j \in wrote : \A k \in wrote : k <= j].tenths

\* The length of what combine_audio_tracks exports: combined starts as the
\* first track and every further track is laid over it with
\* AudioSegment.overlay, which keeps the length of the segment it is called on.
CombinedTenths(audio_paths, log) == TrackTenths(log, audio_paths[1])

\* The mixed-voice loop over the bubbles from bubble b (counted from 0) on:
\* the paths of the bubble clips that were generated, and the files written.
RECURSIVE BubbleSpeech(_, _, _, _, _, _, _)
BubbleSpeech(panel, u, b, e, paths, files, log) ==
    IF b >= Len(panel.bubbles)
    THEN [raised |-> FALSE, paths |-> paths, files |-> files, log |-> log]
    ELSE IF IsBlank(panel.bubbles[b + 1].text)
         THEN BubbleSpeech(panel, u, b + 1, e, paths, files, log)
         ELSE LET out  == << panel.id, "bubble", b >>
                  r    == GenerateSpeech(panel.bubbles[b + 1].text, out,
                                         (b + 1) \notin e.tts_failed,
                                         (b + 1) \notin e.fb_failed)
                  log1 == Append(log, AudioRequest("speech", u, panel.bubbles[b + 1].text,
                                                   out, r.ret.status = "path",
                                                   r.file.tenths))
              IN  IF r.ret.status = "Raise"
                  THEN [raised |-> TRUE, paths |-> paths, files |-> files, log |-> log1]
                  ELSE IF r.ret.status = "path"
                       THEN BubbleSpeech(panel, u, b + 1, e, Append(paths, r.ret.path),
                                         files \cup { out }, log1)
                       ELSE BubbleSpeech(panel, u, b + 1, e, paths, files, log1)

\* The speech part of one panel's pass (project_coordinator.py 289-339).
PanelSpeech(panel, u, settings, e, audio_data, files, log) ==
    IF settings.voice_name = "mixed" /\ Len(panel.bubbles) > 1
    THEN LET bs == BubbleSpeech(panel, u, 0, e, << >>, files, log)
         IN  IF bs.raised
             THEN [raised |-> TRUE, audio |-> audio_data, files |-> bs.files, log |-> bs.log]
             ELSE IF bs.paths = << >>
                  THEN [raised |-> FALSE, audio |-> audio_data, files |-> bs.files,
                        log |-> bs.log]
                  ELSE LET out  == << panel.id, "panel_speech.mp3" >>
                           c    == CombineAudioTracks(bs.paths, out, bs.files,
                                                    "panel_speech.mp3" \notin e.comb_failed)
                           log1 == Append(bs.log, AudioRequest("combine", u, bs.paths, out,
                                              c.status = "path",
                                              IF c.status = "path"
                                              THEN CombinedTenths(bs.paths, bs.log) ELSE 0))
                       IN  IF c.status = "path"
                           THEN [raised |-> FALSE,
                                 audio |-> Put(audio_data, panel.id, c.path),
                                 files |-> bs.files \cup { out }, log |-> log1]
                           ELSE [raised |-> FALSE, audio |-> audio_data, files |-> bs.files,
                                 log |-> log1]
    ELSE LET out  == << panel.id, "panel_speech.mp3" >>
             r    == GenerateSpeech(TextContent(panel), out,
                                    1 \notin e.tts_failed, 1 \notin e.fb_failed)
             log1 == Append(log, AudioRequest("speech", u, TextContent(panel), out,
                                              r.ret.status = "path", r.file.tenths))
         IN  IF r.ret.status = "Raise"
             THEN [raised |-> TRUE, audio |-> audio_data, files |-> files, log |-> log1]
             ELSE IF r.ret.status = "path"
                  THEN [raised |-> FALSE, audio |-> Put(audio_data, panel.id, r.ret.path),
                        files |-> files \cup { out }, log |-> log1]
                  ELSE [raised |-> FALSE, audio |-> audio_data, files |-> files, log |-> log1]

\* The sound-effect part of one panel's pass (project_coordinator.py 341-369):
\* the loop over the keywords stops at the first match, and the result of
\* generate_sound_effect is not looked at.
PanelSoundEffect(panel, u, settings, e, audio_data, files, log) ==
    IF ~(settings.enable_sound_effects /\ HasKeyword(TextContent(panel)))
    THEN [raised |-> FALSE, audio |-> audio_data, files |-> files, log |-> log]
    ELSE LET sfx_path == << panel.id, "impact.wav" >>
             sfx      == GenerateSoundEffect(sfx_path, e.sfx_ok)
             files1   == IF sfx.status = "path" THEN files \cup { sfx_path } ELSE files
             log1     == Append(log, AudioRequest("sfx", u, << >>, sfx_path,
                                                  sfx.status = "path",
                                                  IF sfx.status = "path"
                                                  THEN SoundEffectTenths ELSE 0))
         IN  IF panel.id \in DOMAIN audio_data
             THEN LET out  == << panel.id, "combined.mp3" >>
                      c    == CombineAudioTracks(<< audio_data[panel.id], sfx_path >>,
                                                 out, files1,
                                                 "combined.mp3" \notin e.comb_failed)
                      log2 == Append(log1, AudioRequest("combine", u,
                                         << audio_data[panel.id], sfx_path >>,
                                         out, c.status = "path",
                                         IF c.status = "path"
                                         THEN CombinedTenths(<< audio_data[panel.id], sfx_path >>,
                                                             log1)
                                         ELSE 0))
                  IN  IF c.status = "path"
                      THEN [raised |-> FALSE, audio |-> Put(audio_data, panel.id, c.path),
                            files |-> files1 \cup { out }, log |-> log2]
                      ELSE [raised |-> FALSE, audio |-> audio_data, files |-> files1,
                            log |-> log2]
             ELSE [raised |-> FALSE, audio |-> Put(audio_data, panel.id, sfx_path),
                   files |-> files1, log |-> log1]

\* for panel in self.comic_data['panels'], from the k-th panel on. visited
\* counts the panels the loop has gone through.
RECURSIVE AudioLoop(_, _, _, _, _, _)
AudioLoop(k, settings, env, audio_data, files, log) ==
    IF k > Len(panels)
    THEN [raised |-> FALSE, audio |-> audio_data, files |-> files, log |-> log,
          visited |-> k - 1]
    ELSE IF IsBlank(TextContent(panels[k]))
         THEN AudioLoop(k + 1, settings, env, audio_data, files, log)
         ELSE LET sp == PanelSpeech(panels[k], k - 1, settings, env[k], audio_data, files, log)
              IN  IF sp.raised
                  THEN [raised |-> TRUE, audio |-> sp.audio, files |-> sp.files,
                        log |-> sp.log, visited |-> k - 1]
                  ELSE LET fx == PanelSoundEffect(panels[k], k - 1, settings, env[k],
                                                  sp.audio, sp.files, sp.log)
                       IN  AudioLoop(k + 1, settings, env, fx.audio, fx.files, fx.log)

AllSucceed == [tts_failed |-> {}, fb_failed |-> {}, sfx_ok |-> TRUE, comb_failed |-> {}]

\* The outcomes that matter for a panel: every combination of its speech,
\* sound-effect and combine calls failing, each call on its own, the outcome
\* of a call its pass cannot make left at success (the fallback tone is
\* written only when synthesis fails, the effect and combined.mp3 only for a
\* panel with a keyword, the bubble clips are combined only for a panel of
\* several bubbles).
OutcomesFor(panel) ==
    IF IsBlank(TextContent(panel))
    THEN { AllSucceed }
    ELSE { e \in CallOutcomes(panel) :
             /\ e.fb_failed \subseteq e.tts_failed
             /\ (~HasKeyword(TextContent(panel)) =>
                    e.sfx_ok /\ "combined.mp3" \notin e.comb_failed)
             /\ (Len(panel.bubbles) <= 1 => "panel_speech.mp3" \notin e.comb_failed) }

\* The outcome lists tried for one run over k panels in the full pipeline: the
\* calls of at most one panel fail, and of these at most one kind (speech,
\* sound effect, combine).
OutcomeLists(k) ==
    IF k = 0 THEN { << >> } ELSE
    UNION { { [ j \in 1..k |-> IF j = bad THEN e ELSE AllSucceed ] :
                e \in { x \in OutcomesFor(panels[bad]) :
                          /\ (x.tts_failed # {} => x.sfx_ok /\ x.comb_failed = {})
                          /\ (~x.sfx_ok => x.comb_failed = {}) } } : bad \in 1..k }

\* The outcome lists that differ in a call the run makes: the outcome of a
\* call that is never made under these settings is left at success.
OutcomesUsed(settings, env) ==
    \A j \in 1..Len(env) :
        LET mixes == settings.voice_name = "mixed" /\ Len(panels[j].bubbles) > 1
            booms == settings.enable_sound_effects /\ HasKeyword(TextContent(panels[j]))
        IN  /\ ~booms => env[j].sfx_ok /\ "combined.mp3" \notin env[j].comb_failed
            /\ ~mixes => /\ "panel_speech.mp3" \notin env[j].comb_failed
                         /\ env[j].tts_failed \subseteq { 1 }
            /\ mixes => \A c \in env[j].tts_failed : ~IsBlank(panels[j].bubbles[c].text)

\* The outcome lists of a run over k panels under settings in which any calls
\* of any number of panels fail, one outcome for every call the run can make.
FailureLists(settings, k) ==
    LET lists[n \in 0..k] ==
            IF n = 0 THEN { << >> }
            ELSE { env \in { Append(l, e) : l \in lists[n - 1],
                                            e \in OutcomesFor(panels[n]) } :
                     OutcomesUsed(settings, env) }
    IN  lists[k]

\* What generate_audio leaves behind when its loop over the panels ended as r
\* (project_coordinator.py 265-375): the files written stay, audio_data is
\* stored only when nothing was raised.
AudioOutcome(settings, r) ==
        /\ audio_files' = r.files
        /\ temp_dir' = (temp_dir \/ panels # << >>)
        /\ IF panels = << >>
           THEN UNCHANGED audio_log
           ELSE audio_log' = [settings |-> settings, requests |-> r.log]
        /\ IF r.raised
           THEN /\ last' = [Failed("generate_audio") EXCEPT !.units = r.visited]
                /\ UNCHANGED <<audio, done>>
           ELSE /\ audio' = r.audio
                /\ last' = [Returned("generate_audio") EXCEPT !.units = r.visited]
                /\ done' = done \cup { "generate_audio" }
        /\ UNCHANGED <<extracted, pages, panels, animations, frame_dirs,
                       video_files, concat_list, encoder_log, saved>>

GenerateAudio(settings, env) ==
    AudioOutcome(settings,
                 IF panels = << >>
                 THEN [raised |-> TRUE, audio |-> << >>, files |-> audio_files,
                       log |-> << >>, visited |-> 0]
                 ELSE AudioLoop(1, settings, env, << >>, audio_files, << >>))


\* ---- render_video ---------------------------------------------------------

\* The paths render_video writes in the video directory.
TransitionVideo(transition_id) == << transition_id, "mp4" >>
PanelVideo(panel_id)           == << panel_id, "mp4" >>
PanelVideoWithAudio(panel_id)  == << panel_id, "with_audio.mp4" >>

NoAudio == << >>

\* A request made to the external encoder: its kind ("clip" frames-to-clip,
\* "mux", "concat"), the pass of the render loop that made it (-1 for the final
\* concatenation), the file it reads (<< >> for a list), the file it writes and
\* whether the encoder succeeded.
EncoderRequest(kind, unit, input, output, ok) ==
    [request |-> kind, unit |-> unit, input |-> input, output |-> output, ok |-> ok]

\* The frames-to-clip request of create_video_from_frames(frames, output_path)
\* on a renderer configured with fps: the encoder reads the sequence file,
\* which lists the `frames` frames of the list, each with the duration
\* `frame_duration` (no frame_duration is passed: 1.0 / self.fps).
ClipRequest(unit, frames, output_path, fps, ok) ==
    [request |-> "clip", unit |-> unit, input |-> frames.dir, output |-> output_path,
     ok |-> ok, frames |-> frames.n,
     frame_duration |-> SequenceData(<< << frames.dir, 0 >> >>, None, fps)[1].duration]

\* VideoRenderer.create_video_from_frames(frame_paths, output_path), called in
\* pass `unit` after the encoder requests of log: raises on an empty frame list
\* without calling the encoder, and when the encoder fails (fail_at is the
\* number of the failing request, 0 for none); otherwise the clip holds what
\* the frames' directory holds.
CreateVideoFromFrames(frames, output_path, unit, fps, fail_at, videos, log) ==
    IF frames.n = 0 THEN [raised |-> TRUE, videos |-> videos, log |-> log]
    ELSE IF Len(log) + 1 = fail_at \/ frames.dir \notin DOMAIN frame_dirs
    THEN [raised |-> TRUE, videos |-> videos,
          log |-> Append(log, ClipRequest(unit, frames, output_path, fps, FALSE))]
    ELSE [raised |-> FALSE,
          log |-> Append(log, ClipRequest(unit, frames, output_path, fps, TRUE)),
          videos |-> Put(videos, output_path,
                         [shows |-> frame_dirs[frames.dir], audio |-> NoAudio])]

\* A mux step that sends its request to the encoder twice.
AddAudioToVideo_Twice(video_path, audio_path, output_path, unit, fail_at, videos, log) ==
    [raised |-> FALSE,
     log |-> log \o << EncoderRequest("mux", unit, video_path, output_path, TRUE),
                       EncoderRequest("mux", unit, video_path, output_path, TRUE) >>,
     videos |-> Put(videos, output_path,
                    [shows |-> videos[video_path].shows, audio |-> audio_path])]

\* VideoRenderer.add_audio_to_video(video_path, audio_path, output_path)
AddAudioToVideo(video_path, audio_path, output_path, unit, fail_at, videos, log) ==
    IF Len(log) + 1 = fail_at \/ audio_path \notin audio_files
    THEN [raised |-> TRUE, videos |-> videos,
          log |-> Append(log, EncoderRequest("mux", unit, video_path, output_path, FALSE))]
    ELSE [raised |-> FALSE,
          log |-> Append(log, EncoderRequest("mux", unit, video_path, output_path, TRUE)),
          videos |-> Put(videos, output_path,
                         [shows |-> videos[video_path].shows, audio |-> audio_path])]

\* VideoRenderer.combine_videos(video_paths, output_path): one encoder request.
CombineVideos(fail_at, log) ==
    IF Len(log) + 1 = fail_at
    THEN [raised |-> TRUE,
          log |-> Append(log, EncoderRequest("concat", -1, << >>, << "output" >>, FALSE))]
    ELSE [raised |-> FALSE,
          log |-> Append(log, EncoderRequest("concat", -1, << >>, << "output" >>, TRUE))]

\* One panel's pass through the loop of render_video (the panel at index i,
\* counted from 0); log holds the encoder requests made so far.
RenderPanel(i, fps, fail_at, list, videos, log) ==
    LET panel_id      == panels[i + 1].id
        transition_id == << "transition", i >>
        t == IF i > 0 /\ transition_id \in DOMAIN animations
             THEN IF "frames" \notin DOMAIN animations[transition_id]
                  THEN [raised |-> TRUE, videos |-> videos, log |-> log]
                  ELSE CreateVideoFromFrames(animations[transition_id].frames,
                                             TransitionVideo(transition_id),
                                             i, fps, fail_at, videos, log)
             ELSE [raised |-> FALSE, videos |-> videos, log |-> log]
        list1 == IF i > 0 /\ transition_id \in DOMAIN animations
                 THEN Append(list, TransitionVideo(transition_id)) ELSE list
    IN  IF t.raised
        THEN [raised |-> TRUE, list |-> list, videos |-> t.videos, log |-> t.log]
        ELSE IF panel_id \notin DOMAIN animations
        THEN [raised |-> FALSE, list |-> list1, videos |-> t.videos, log |-> t.log]
        ELSE IF "frames" \notin DOMAIN animations[panel_id]
        THEN [raised |-> TRUE, list |-> list1, videos |-> t.videos, log |-> t.log]
        ELSE
        LET v == CreateVideoFromFrames(animations[panel_id].frames, PanelVideo(panel_id),
                                       i, fps, fail_at, t.videos, t.log)
        IN  IF v.raised
            THEN [raised |-> TRUE, list |-> list1, videos |-> v.videos, log |-> v.log]
            ELSE IF panel_id \in DOMAIN audio
            THEN LET a == AddAudioToVideo(PanelVideo(panel_id), audio[panel_id],
                                          PanelVideoWithAudio(panel_id),
                                          i, fail_at, v.videos, v.log)
                 IN  IF a.raised
                     THEN [raised |-> TRUE, list |-> list1, videos |-> a.videos,
                           log |-> a.log]
                     ELSE [raised |-> FALSE, videos |-> a.videos, log |-> a.log,
                           list |-> Append(list1, PanelVideoWithAudio(panel_id))]
            ELSE [raised |-> FALSE, videos |-> v.videos, log |-> v.log,
                  list |-> Append(list1, PanelVideo(panel_id))]

\* A render loop that goes on to the next panel after a pass has raised.
RECURSIVE RenderLoop_KeepGoing(_, _, _, _, _, _)
RenderLoop_KeepGoing(i, fps, fail_at, list, videos, log) ==
    IF i >= Len(panels)
    THEN [raised |-> FALSE, list |-> list, videos |-> videos, log |-> log]
    ELSE LET r == RenderPanel(i, fps, fail_at, list, videos, log)
         IN  RenderLoop_KeepGoing(i + 1, fps, fail_at, r.list, r.videos, r.log)

\* for i, panel in enumerate(self.comic_data['panels']), from index i on.
RECURSIVE RenderLoop(_, _, _, _, _, _)
RenderLoop(i, fps, fail_at, list, videos, log) ==
    IF i >= Len(panels)
    THEN [raised |-> FALSE, list |-> list, videos |-> videos, log |-> log]
    ELSE LET r == RenderPanel(i, fps, fail_at, list, videos, log)
         IN  IF r.raised THEN r
             ELSE RenderLoop(i + 1, fps, fail_at, r.list, r.videos, r.log)

\* The encoder calls one render_video can make: two clips and a mux per
\* panel, and the final concatenation.
MaxEncoderCalls == 3 * Len(panels) + 1

\* What combine_videos was handed: each path with the clip stored there.
Handed(list, videos) ==
    [ k \in 1..Len(list) |-> [path |-> list[k], clip |-> videos[list[k]]] ]

\* settings.get('fps', 24)
DefaultFps == 24

\* The fps settings render_video is called with.
FpsSettings == { DefaultFps, 30 }

\* What render_video leaves behind when its loop over the panels ended as r
\* (project_coordinator.py 454-468): the clips are concatenated unless a pass
\* raised or no clip was made.
RenderOutcome(fail_at, r) ==
    LET c == IF r.raised \/ r.list = << >>
             THEN [raised |-> TRUE, log |-> r.log]
             ELSE CombineVideos(fail_at, r.log)
    IN  /\ video_files' = r.videos
        /\ temp_dir' = TRUE
        /\ encoder_log' = c.log
        /\ IF c.raised
           THEN /\ last' = Failed("render_video")
                /\ UNCHANGED <<concat_list, done>>
           ELSE /\ concat_list' = Handed(r.list, r.videos)
                /\ last' = Returned("render_video")
                /\ done' = done \cup { "render_video" }
        /\ UNCHANGED <<extracted, pages, panels, animations, audio, frame_dirs,
                       audio_files, audio_log, saved>>

RenderVideo(fps, fail_at) ==
    RenderOutcome(fail_at, RenderLoop(0, fps, fail_at, << >>, video_files, << >>))

\* ---- save_project / load_project -----------------------------------------

NoProjectFile ==
    [present |-> FALSE, in_temp |-> FALSE, pages |-> << >>, panels |-> << >>, animations |-> << >>,
     audio |-> << >>]

\* The serializable copy save_project writes: an animation keeps only
\* panel_index (None for a transition), type and the number of its frames.
SerializableAnimations(anims) ==
    [ k \in DOMAIN anims |->
        [panel_index |-> IF "panel_index" \in DOMAIN anims[k]
                         THEN anims[k].panel_index ELSE -1,
         type        |-> anims[k].type,
         frame_count |-> IF "frames" \in DOMAIN anims[k] THEN anims[k].frames.n ELSE 0] ]

\* save_project(output_path): in_temp tells whether output_path lies inside the
\* temporary directory; open(output_path, 'w') raises when that directory is
\* gone.
SaveProject(in_temp) ==
    /\ IF in_temp /\ ~temp_dir
       THEN /\ last' = [Failed("save_project") EXCEPT !.raised = "FileNotFoundError"]
            /\ UNCHANGED saved
       ELSE /\ saved' = [present |-> TRUE, in_temp |-> in_temp, pages |-> pages,
                         panels |-> panels,
                         animations |-> SerializableAnimations(animations),
                         audio |-> audio]
            /\ last' = Returned("save_project")
    /\ UNCHANGED <<temp_dir, extracted, pages, panels, animations, audio, frame_dirs,
                   audio_files, video_files, concat_list, encoder_log, audio_log, done>>

\* load_project: self.comic_data.update(data) with the file's four keys; a
\* missing file raises.
LoadProject ==
    /\ IF saved.present
       THEN /\ pages' = saved.pages
            /\ panels' = saved.panels
            /\ animations' = saved.animations
            /\ audio' = saved.audio
            /\ last' = Returned("load_project")
       ELSE /\ last' = Failed("load_project")
            /\ UNCHANGED <<pages, panels, animations, audio>>
    /\ UNCHANGED <<temp_dir, extracted, frame_dirs, audio_files, video_files, concat_list,
                   encoder_log, audio_log, saved, done>>

\* ---- cleanup -------------------------------------------------------------

\* ProjectCoordinator.cleanup(): shutil.rmtree(self.temp_dir) removes the
\* extracted images, the frame directories, the audio files and the clips (and
\* a project file saved inside); comic_data is left as it is. A failure of
\* rmtree (the directory is gone already) is caught and logged.
Cleanup ==
    /\ temp_dir' = FALSE
    /\ extracted' = << >>
    /\ frame_dirs' = << >>
    /\ audio_files' = {}
    /\ video_files' = << >>
    /\ saved' = IF saved.in_temp THEN NoProjectFile ELSE saved
    /\ last' = Returned("cleanup")
    /\ UNCHANGED <<pages, panels, animations, audio, concat_list, encoder_log,
                   audio_log, done>>

\* ComicFileExtractor.cleanup(directory) on the extraction directory: removes
\* it when it exists.
ExtractorCleanup ==
    /\ extracted' = << >>
    /\ last' = Returned("extractor_cleanup")
    /\ UNCHANGED <<temp_dir, pages, panels, animations, audio, frame_dirs, audio_files,
                   video_files, concat_list, encoder_log, audio_log, saved, done>>

\* ---- the coordinator as a state machine ----------------------------------

CoordIdle ==
    /\ temp_dir = TRUE
    /\ extracted = << >>
    /\ pages = << >>
    /\ panels = << >>
    /\ animations = << >>
    /\ audio = << >>
    /\ frame_dirs = << >>
    /\ audio_files = {}
    /\ video_files = << >>
    /\ concat_list = << >>
    /\ encoder_log = << >>
    /\ audio_log = [settings |-> DefaultAudioSettings, requests |-> << >>]
    /\ saved = NoProjectFile
    /\ last = [op |-> None, result |-> "ok", raised |-> "", units |-> 0, n |-> 0]
    /\ done = {}

\* MainWindow.__init__ and init_ui: no file chosen, the generate button
\* disabled (main_window.py 174), no dialog open, no worker.
UIIdle ==
    /\ input_file = << >>
    /\ output_file = << >>
    /\ enabled = [generate |-> FALSE, browse |-> TRUE, output |-> TRUE]
    /\ dialog = "none"
    /\ workers = << >>
    /\ pending = << >>

\* ProjectCoordinator.__init__
Init == GeoIdle /\ AnimIdle /\ SpeechIdle /\ CoordIdle /\ UIIdle /\ VideoIdle

DoExtractComic ==
    /\ last.n < MaxCalls
    /\ \E archive \in Archives : \E rar_ok \in BOOLEAN :
          /\ (archive.kind # "cbr" => rar_ok)
          /\ ExtractComic(archive, rar_ok)
    /\ UNCHANGED <<geoVars, animVars, audioVars, uiVars, videoVars>>

DoProcessPages ==
    /\ last.n < MaxCalls
    /\ \E ocr_fail \in 0..TotalOcrCalls(1) : ProcessPages(ocr_fail)
    /\ UNCHANGED <<geoVars, animVars, audioVars, uiVars, videoVars>>

DoCreateAnimations ==
    /\ last.n < MaxCalls
    /\ \E settings \in AnimationSettings :
       \E coins \in [1..Len(panels) -> BOOLEAN] :
          /\ (settings.animation_style # "mixed" => \A k \in 1..Len(panels) : coins[k])
          /\ CreateAnimations(settings, coins)
    /\ UNCHANGED <<geoVars, animVars, audioVars, uiVars, videoVars>>

DoGenerateAudio ==
    /\ last.n < MaxCalls
    /\ \E settings \in AudioSettings :
       \E env \in OutcomeLists(Len(panels)) :
          /\ OutcomesUsed(settings, env)
          /\ GenerateAudio(settings, env)
    /\ UNCHANGED <<geoVars, animVars, audioVars, uiVars, videoVars>>

DoRenderVideo ==
    /\ last.n < MaxCalls
    /\ \E fail_at \in 0..MaxEncoderCalls : RenderVideo(DefaultFps, fail_at)
    /\ UNCHANGED <<geoVars, animVars, audioVars, uiVars, videoVars>>

DoSaveProject ==
    /\ last.n < MaxCalls
    /\ \E in_temp \in BOOLEAN : SaveProject(in_temp)
    /\ UNCHANGED <<geoVars, animVars, audioVars, uiVars, videoVars>>

DoLoadProject ==
    /\ last.n < MaxCalls
    /\ LoadProject
    /\ UNCHANGED <<geoVars, animVars, audioVars, uiVars, videoVars>>

DoCleanup ==
    /\ last.n < MaxCalls
    /\ Cleanup
    /\ UNCHANGED <<geoVars, animVars, audioVars, uiVars, videoVars>>

DoExtractorCleanup ==
    /\ last.n < MaxCalls
    /\ ExtractorCleanup
    /\ UNCHANGED <<geoVars, animVars, audioVars, uiVars, videoVars>>

Next ==
    \/ DoExtractComic
    \/ DoProcessPages
    \/ DoCreateAnimations
    \/ DoGenerateAudio
    \/ DoRenderVideo
    \/ DoSaveProject
    \/ DoLoadProject
    \/ DoCleanup
    \/ DoExtractorCleanup

Spec == Init /\ [][Next]_vars

\* ---- the main window and its worker threads ------------------------------

\* The files the user picks in the open dialog, and the settings read from the
\* controls by get_settings when a run is started: one dictionary, handed to
\* every stage.
UIArchives ==
    { [kind |-> "cbz", files |-> (1 :> "A")],
      [kind |-> "cbz", files |-> (1 :> "X")],
      [kind |-> "other", files |-> << >>] }

UISettings ==
    { [animation_style |-> "pan_and_scan", panel_duration |-> <<5, 2>>,
       transition_duration |-> <<1, 2>>, animation_speed |-> 1,
       voice_name |-> "en-US-Neural2-F", enable_sound_effects |-> TRUE],
      [animation_style |-> "mixed", panel_duration |-> <<5, 2>>,
       transition_duration |-> <<1, 2>>, animation_speed |-> 2,
       voice_name |-> "mixed", enable_sound_effects |-> FALSE] }

\* What the collaborators do during a worker's run: every audio call succeeds
\* or the speech of the first panel cannot be produced at all; the encoder
\* succeeds, or fails at its first or at its fourth request.
UIOutcomeLists(k) ==
    { [ j \in 1..k |-> AllSucceed ],
      [ j \in 1..k |-> IF j = 1
                        THEN [AllSucceed EXCEPT !.tts_failed = 1..(Len(panels[1].bubbles) + 1),
                                                !.fb_failed = 1..(Len(panels[1].bubbles) + 1)]
                        ELSE AllSucceed ] }

UIEncoderFailures == { 0, 1, 4 }

\* The worker threads followed on one main window.
MaxRuns == 2

\* The stages of WorkerThread.run, in the order of its statements.
StageOrder ==
    << "extract_comic", "process_pages", "create_animations", "generate_audio",
       "render_video" >>

\* update_generate_button, given the two selections.
UpdateGenerateButton(input, output) ==
    [enabled EXCEPT !.generate = (input # << >> /\ output # << >>)]

\* A click on "Browse...": browse_input_file runs up to getOpenFileName, which
\* opens a modal dialog. A disabled button takes no click, and a window with a
\* modal dialog open takes none either.
BrowseInputFile ==
    /\ enabled.browse /\ dialog = "none"
    /\ dialog' = "open"
    /\ UNCHANGED <<input_file, output_file, enabled, workers, pending>>
    /\ UNCHANGED <<geoVars, animVars, audioVars, coordVars, videoVars>>

\* getOpenFileName returns: a path, or '' when the user cancels.
BrowseInputFileReturn ==
    /\ dialog = "open"
    /\ dialog' = "none"
    /\ \/ UNCHANGED <<input_file, enabled>>
       \/ \E archive \in UIArchives :
             /\ input_file' = << archive >>
             /\ enabled' = UpdateGenerateButton(<< archive >>, output_file)
    /\ UNCHANGED <<output_file, workers, pending>>
    /\ UNCHANGED <<geoVars, animVars, audioVars, coordVars, videoVars>>

\* A click on "Select Output...": select_output_file up to getSaveFileName.
SelectOutputFile ==
    /\ enabled.output /\ dialog = "none"
    /\ dialog' = "save"
    /\ UNCHANGED <<input_file, output_file, enabled, workers, pending>>
    /\ UNCHANGED <<geoVars, animVars, audioVars, coordVars, videoVars>>

\* getSaveFileName returns.
SelectOutputFileReturn ==
    /\ dialog = "save"
    /\ dialog' = "none"
    /\ \/ UNCHANGED <<output_file, enabled>>
       \/ /\ output_file' = << "out.mp4" >>
          /\ enabled' = UpdateGenerateButton(input_file, << "out.mp4" >>)
    /\ UNCHANGED <<input_file, workers, pending>>
    /\ UNCHANGED <<geoVars, animVars, audioVars, coordVars, videoVars>>

\* A worker thread as generate_motion_comic creates it: about to run its first
\* stage. begun lists the stages it has called, each with how the call ended;
\* emitted lists the finished signals it has emitted.
NewWorker(input, settings) ==
    [pc |-> StageOrder[1], input |-> input, settings |-> settings,
     begun |-> << >>, emitted |-> << >>]

\* A generate_motion_comic that starts its worker and leaves the buttons as
\* they are.
GenerateMotionComic_ButtonsLeftOn ==
    /\ enabled.generate /\ dialog = "none"
    /\ Len(workers) < MaxRuns
    /\ input_file # << >> /\ output_file # << >>
    /\ \E settings \in UISettings :
          workers' = Append(workers, NewWorker(input_file[1], settings))
    /\ UNCHANGED <<enabled, input_file, output_file, dialog, pending>>
    /\ UNCHANGED <<geoVars, animVars, audioVars, coordVars, videoVars>>

\* A click on "Generate Motion Comic": generate_motion_comic.
GenerateMotionComic ==
    /\ enabled.generate /\ dialog = "none"
    /\ Len(workers) < MaxRuns
    /\ IF input_file = << >> \/ output_file = << >>
       THEN UNCHANGED <<enabled, workers>>
       ELSE /\ enabled' = [generate |-> FALSE, browse |-> FALSE, output |-> FALSE]
            /\ \E settings \in UISettings :
                  workers' = Append(workers, NewWorker(input_file[1], settings))
    /\ UNCHANGED <<input_file, output_file, dialog, pending>>
    /\ UNCHANGED <<geoVars, animVars, audioVars, coordVars, videoVars>>

\* A worker that goes on to its next stage whatever the last one did.
Advance_PastErrors(w, k) ==
    LET rec == [stage |-> StageOrder[k], result |-> last'.result, raised |-> last'.raised]
    IN  IF k < Len(StageOrder)
        THEN /\ workers' = [workers EXCEPT ![w].pc = StageOrder[k + 1],
                                           ![w].begun = Append(@, rec)]
             /\ UNCHANGED pending
        ELSE /\ workers' = [workers EXCEPT
                              ![w].pc = "finished",
                              ![w].begun = Append(@, rec),
                              ![w].emitted = Append(@, [success |-> TRUE, error |-> ""])]
             /\ pending' = Append(pending, w)

\* WorkerThread.run after its k-th stage call has ended (the call's outcome is
\* in last'): on to the next statement of the try block; after the last one
\* finished_signal.emit(True, ...); after a call that raised, the except
\* clause's finished_signal.emit(False, str(e)).
Advance(w, k) ==
    LET ok  == last'.result = "ok"
        rec == [stage |-> StageOrder[k], result |-> last'.result, raised |-> last'.raised]
    IN  IF ok /\ k < Len(StageOrder)
        THEN /\ workers' = [workers EXCEPT ![w].pc = StageOrder[k + 1],
                                           ![w].begun = Append(@, rec)]
             /\ UNCHANGED pending
        ELSE /\ workers' = [workers EXCEPT
                              ![w].pc = "finished",
                              ![w].begun = Append(@, rec),
                              ![w].emitted = Append(@, [success |-> ok,
                                                        error |-> last'.raised])]
             /\ pending' = Append(pending, w)

\* self.coordinator.extract_comic(self.input_file)
RunExtractComic ==
    /\ \E w \in 1..Len(workers) :
          /\ workers[w].pc = StageOrder[1]
          /\ ExtractComic(workers[w].input, TRUE)
          /\ Advance(w, 1)
    /\ UNCHANGED <<input_file, output_file, enabled, dialog>>
    /\ UNCHANGED <<geoVars, animVars, audioVars, videoVars>>

\* self.coordinator.process_pages(self.settings)
RunProcessPages ==
    /\ \E w \in 1..Len(workers) :
          /\ workers[w].pc = StageOrder[2]
          /\ ProcessPages(0)
          /\ Advance(w, 2)
    /\ UNCHANGED <<input_file, output_file, enabled, dialog>>
    /\ UNCHANGED <<geoVars, animVars, audioVars, videoVars>>

\* self.coordinator.create_animations(self.settings)
RunCreateAnimations ==
    /\ \E w \in 1..Len(workers) :
          /\ workers[w].pc = StageOrder[3]
          /\ \E coins \in [1..Len(panels) -> BOOLEAN] :
                /\ (workers[w].settings.animation_style # "mixed" =>
                       \A k \in 1..Len(panels) : coins[k])
                /\ CreateAnimations(workers[w].settings, coins)
          /\ Advance(w, 3)
    /\ UNCHANGED <<input_file, output_file, enabled, dialog>>
    /\ UNCHANGED <<geoVars, animVars, audioVars, videoVars>>

\* self.coordinator.generate_audio(self.settings)
RunGenerateAudio ==
    /\ \E w \in 1..Len(workers) :
          /\ workers[w].pc = StageOrder[4]
          /\ \E env \in UIOutcomeLists(Len(panels)) :
                GenerateAudio(workers[w].settings, env)
          /\ Advance(w, 4)
    /\ UNCHANGED <<input_file, output_file, enabled, dialog>>
    /\ UNCHANGED <<geoVars, animVars, audioVars, videoVars>>

\* self.coordinator.render_video(self.output_file, self.settings)
RunRenderVideo ==
    /\ \E w \in 1..Len(workers) :
          /\ workers[w].pc = StageOrder[5]
          /\ \E fail_at \in UIEncoderFailures : RenderVideo(DefaultFps, fail_at)
          /\ Advance(w, 5)
    /\ UNCHANGED <<input_file, output_file, enabled, dialog>>
    /\ UNCHANGED <<geoVars, animVars, audioVars, videoVars>>

\* The queued finished signal reaches process_finished in the main thread
\* (also while a dialog's event loop is running).
ProcessFinished ==
    /\ pending # << >>
    /\ pending' = Tail(pending)
    /\ enabled' = [generate |-> TRUE, browse |-> TRUE, output |-> TRUE]
    /\ UNCHANGED <<input_file, output_file, dialog, workers>>
    /\ UNCHANGED <<geoVars, animVars, audioVars, coordVars, videoVars>>

NextUI ==
    \/ BrowseInputFile
    \/ BrowseInputFileReturn
    \/ SelectOutputFile
    \/ SelectOutputFileReturn
    \/ GenerateMotionComic
    \/ RunExtractComic
    \/ RunProcessPages
    \/ RunCreateAnimations
    \/ RunGenerateAudio
    \/ RunRenderVideo
    \/ ProcessFinished

SpecUI == Init /\ [][NextUI]_vars

\* Some worker is about to make its k-th stage call.
AtStage(k) == \E w \in 1..Len(workers) : workers[w].pc = StageOrder[k]

\* A started QThread is scheduled until run returns and every stage call
\* returns or raises, so no worker waits before a stage call forever (the
\* stage action is enabled whenever a worker is at that stage, which makes
\* this its weak fairness); and the main thread's event loop delivers every
\* queued signal.
SpecUIFair ==
    /\ SpecUI
    /\ \A k \in 1..Len(StageOrder) : []<>~AtStage(k)
    /\ WF_vars(ProcessFinished)

\* ---- the pure functions, each applied to inputs drawn from bounded sets --

\* A readable page, large enough for every candidate, whose contours have the
\* bounding rectangles ps; no text and no bubbles are found on it.
PageDim == << 10, 2 >>
PageWithContours(ps) ==
    [readable |-> TRUE, dim |-> PageDim, contours |-> ps,
     text     |-> [ r \in Range(ps) |-> << >> ],
     bubbles  |-> [ r \in Range(ps) |-> NoBubbles ]]

\* ImageProcessor.process_image on such a page: the regions of its panels.
CallProcessImage ==
    /\ LET page_data == ProcessImage(PageWithContours(cands), 0)
       IN  geo_out' = [op |-> "process_image",
                       result |-> [ k \in 1..Len(page_data.panels) |->
                                      page_data.panels[k].region ]]
    /\ UNCHANGED <<cands, animVars, audioVars, coordVars, uiVars, videoVars>>

NextMerge ==
    \/ CallMerge
    \/ CallDetect
    \/ CallDetectPanels

InitMerge == InitGeo /\ AnimIdle /\ SpeechIdle /\ CoordIdle /\ UIIdle /\ VideoIdle

SpecMerge == InitMerge /\ [][NextMerge]_vars

\* process_image applied to every list of contour rectangles.
NextPage == CallProcessImage

SpecPage == InitMerge /\ [][NextPage]_vars

\* The geometry calls on every pair of rectangles from a wider universe, in
\* which two rectangles can overlap by 1/5, 1/4, 1/3, 2/5, ... of the smaller.
PairUniverse ==
    { <<x, ye[1], w, ye[2]>> : x \in 0..4, w \in 1..5, ye \in YExtents }

InitPair ==
    /\ cands \in [1..2 -> PairUniverse]
    /\ geo_out = [op |-> None, result |-> << >>]
    /\ AnimIdle /\ SpeechIdle /\ CoordIdle /\ UIIdle /\ VideoIdle

SpecPair == InitPair /\ [][NextMerge]_vars

NextAnim ==
    \/ CallPanAndScan
    \/ CallKenBurns
    \/ CallPanelTransition
    \/ CallSlideTransition

InitAnimator == GeoIdle /\ InitAnim /\ SpeechIdle /\ CoordIdle /\ UIIdle /\ VideoIdle

SpecAnim == InitAnimator /\ [][NextAnim]_vars

NextAudio == CallGenerateSpeech

InitAudio == GeoIdle /\ AnimIdle /\ InitSpeech /\ CoordIdle /\ UIIdle /\ VideoIdle

SpecAudio == InitAudio /\ [][NextAudio]_vars

NextVideo == CallCreateVideoFromFrames

InitVideoRenderer == GeoIdle /\ AnimIdle /\ SpeechIdle /\ CoordIdle /\ UIIdle /\ InitVideo

SpecVideo == InitVideoRenderer /\ [][NextVideo]_vars

\* The coordinator's pipeline from archive to video, rendered with an fps
\* setting chosen by the caller (audio plays no part in the clips' frames).
DoRenderVideoAtFps ==
    /\ last.n < MaxCalls
    /\ \E fps \in FpsSettings : RenderVideo(fps, 0)
    /\ UNCHANGED <<geoVars, animVars, audioVars, uiVars, videoVars>>

NextRender ==
    \/ DoExtractComic
    \/ DoProcessPages
    \/ DoCreateAnimations
    \/ DoRenderVideoAtFps

SpecRender == Init /\ [][NextRender]_vars

\* The coordinator up to the audio stage, with generate_audio run while any
\* combination of its speech, sound-effect and combine calls fails; such a run
\* is followed among the first MaxFailureCalls calls.
MaxFailureCalls == 4

DoGenerateAudioFailing ==
    /\ last.n < MaxFailureCalls
    /\ \E settings \in AudioSettings :
       \E env \in FailureLists(settings, Len(panels)) :
          GenerateAudio(settings, env)
    /\ UNCHANGED <<geoVars, animVars, audioVars, uiVars, videoVars>>

NextFailures ==
    \/ DoExtractComic
    \/ DoProcessPages
    \/ DoGenerateAudioFailing

SpecFailures == Init /\ [][NextFailures]_vars

(***************************************************************************)
(*                              PROPERTIES                                 *)
(***************************************************************************)


\* ---- panel geometry (SpecMerge) ------------------------------------------

\* C5: no two rectangles returned by _merge_overlapping_panels intersect by
\* more than 0.3 times the smaller one's area, and merging the output again
\* returns the same set of rectangles.
C5_MergeOutputHasNoOverlap ==
    geo_out.op = "merge" =>
        /\ \A i, j \in 1..Len(geo_out.result) :
              i < j => ~OverlapsSignificantly(geo_out.result[i], geo_out.result[j])
        /\ Range(MergeOverlappingPanels(geo_out.result)) = Range(geo_out.result)

\* C6: the panel list returned by detection (PanelDetector.detect and
\* ImageProcessor.detect_panels) is sorted ascending by (y, x): top to bottom,
\* ties in y broken left to right.
C6_DetectionSortedByYX ==
    geo_out.op \in { "detect", "detect_panels" } =>
        \A i, j \in 1..Len(geo_out.result) :
            i < j =>
              \/ geo_out.result[i][2] < geo_out.result[j][2]
              \/ /\ geo_out.result[i][2] = geo_out.result[j][2]
                 /\ geo_out.result[i][1] <= geo_out.result[j][1]

\* A detection whose candidates came in another order than (y, x), and whose
\* result holds two rectangles of one row at different x.
C6_Witness ==
    /\ geo_out.op \in { "detect", "detect_panels" }
    /\ \E i, j \in 1..Len(cands) : i < j /\ cands[i][2] > cands[j][2]
    /\ \E i, j \in 1..Len(cands) :
          i < j /\ cands[i][2] = cands[j][2] /\ cands[i][1] > cands[j][1]
    /\ \E i, j \in 1..Len(geo_out.result) :
          /\ i < j
          /\ geo_out.result[i][2] = geo_out.result[j][2]
          /\ geo_out.result[i][1] < geo_out.result[j][1]

\* ---- animator (SpecAnim) --------------------------------------------------

\* C7: each effect generator returns exactly max(1, round(duration * fps))
\* frames, never zero.
C7_FrameCountIsRounded ==
    an_out.op # None =>
        Len(an_out.frames) =
            Max(1, RoundHalfEven(an_in.duration[1] * an_in.fps, an_in.duration[2]))

\* C8: in every frame of a pan-and-scan animation onto a region inside the
\* image, the crop origin satisfies 0 <= x <= width - cropWidth and
\* 0 <= y <= height - cropHeight.
C8_CropInsideImage ==
    an_out.op = "pan_and_scan" =>
        \A k \in 1..Len(an_out.frames) :
            LET c == an_out.frames[k]
            IN  /\ 0 <= c[1] /\ c[1] <= an_in.dim[1] - c[3]
                /\ 0 <= c[2] /\ c[2] <= an_in.dim[2] - c[4]

\* ---- audio generator (SpecAudio) -----------------------------------------

\* C9, as claimed: whenever the TTS call fails for non-blank text,
\* generate_speech returns a path, never None: that of a tone lasting 0.1 s
\* per word of the text.
C9_NeverNoneOnTtsFailure ==
    (sp_out.called /\ ~sp_in.tts_ok /\ ~IsBlank(sp_in.text)) =>
        /\ sp_out.ret.status = "path"
        /\ sp_out.file.kind = "tone"
        /\ sp_out.file.tenths = WordCount(sp_in.text)

\* C9, as the code has it: whenever the TTS call fails for non-blank text,
\* generate_speech returns the output path with a tone of 0.1 s per word
\* written there if the tone can be written, and None exactly when writing
\* the tone fails too; it does not raise.
C9_ToneOrNoneOnTtsFailure ==
    (sp_out.called /\ ~sp_in.tts_ok /\ ~IsBlank(sp_in.text)) =>
        IF sp_in.fb_ok
        THEN /\ sp_out.ret = ReturnPath(<< "speech.mp3" >>)
             /\ sp_out.file.kind = "tone"
             /\ sp_out.file.tenths = WordCount(sp_in.text)
        ELSE sp_out.ret = ReturnNone

\* A failed TTS call on a text of several words, the tone written.
C9_Witness ==
    /\ sp_out.called /\ ~sp_in.tts_ok /\ sp_in.fb_ok
    /\ WordCount(sp_in.text) >= 2
    /\ sp_out.file.kind = "tone"

\* ---- coordinator (Spec) ---------------------------------------------------

ProjectData == << pages, panels, animations, audio >>

\* The call that has just returned was made before its predecessor stage had
\* completed.
CalledTooEarly ==
    \/ last'.op = "process_pages" /\ pages = << >>
    \/ last'.op \in { "create_animations", "generate_audio" } /\ panels = << >>
    \/ /\ last'.op = "render_video"
       /\ ~({ "create_animations", "generate_audio" } \subseteq done)

\* C1: a stage operation called before its predecessor stage has completed
\* fails with an error and leaves pages, panels, animations and audio as they
\* were.
C1_EarlyCallFailsWithoutChange ==
    [][ (last'.n # last.n /\ CalledTooEarly) =>
            (last'.result = "error" /\ ProjectData' = ProjectData) ]_vars

\* The stage the project has reached: Created 0, Extracted 1, Detected 2,
\* Animated 3, Audioed 4, Rendered 5.
Stage ==
    IF pages = << >> THEN 0
    ELSE IF panels = << >> THEN 1
    ELSE IF animations = << >> THEN 2
    ELSE IF "generate_audio" \notin done THEN 3
    ELSE IF "render_video" \notin done THEN 4
    ELSE 5

\* C2: the stage only moves forward, and no operation replaces the pages of a
\* project that holds panels, animations or audio.
C2_StageOnlyMovesForward ==
    [][ /\ Stage' >= Stage
        /\ (panels # << >> \/ animations # << >> \/ audio # << >>) => pages' = pages
      ]_vars

\* A first run of the stages in order: every call so far was a stage
\* operation that succeeded, none called twice, the last one render_video.
FirstRunRendered ==
    /\ last.op = "render_video" /\ last.result = "ok"
    /\ last.n = Cardinality(done)
    /\ { "extract_comic", "process_pages", "create_animations" } \subseteq done

\* The clip is the one animated for the panel at index i (counted from 0).
IsPanelClip(entry, i) ==
    /\ entry.clip.shows.unit = i
    /\ entry.clip.shows.effect \in { "pan_and_scan", "ken_burns" }
    /\ entry.clip.shows.src = << pages[panels[i + 1].page_index + 1].path >>

\* The clip is the transition from the panel at index i - 1 to the one at i.
IsTransitionClip(entry, i) ==
    /\ entry.clip.shows.unit = i
    /\ entry.clip.shows.effect = "fade"
    /\ entry.clip.shows.src = << pages[panels[i].page_index + 1].path,
                                 pages[panels[i + 1].page_index + 1].path >>

\* C3: for N animated panels the list handed to the final concatenation holds
\* exactly N panel clips in reading order and N-1 transition clips, the
\* transition into panel i immediately before panel i's clip.
C3_ConcatListInterleaves ==
    FirstRunRendered =>
        LET N == Len(panels)
        IN  /\ Len(concat_list) = 2 * N - 1
            /\ \A i \in 0..(N - 1) :
                  /\ IsPanelClip(concat_list[2 * i + 1], i)
                  /\ i > 0 => IsTransitionClip(concat_list[2 * i], i)

\* C4: after create_animations on N panels the animation map holds exactly
\* one panel clip for each panel and exactly one transition clip for each i in
\* 1..N-1, from the (i-1)-th to the i-th panel.
C4_OneClipPerPanel ==
    (last.op = "create_animations" /\ last.result = "ok") =>
        LET N == Len(panels)
            panel_clips == { k \in DOMAIN animations : animations[k].type = "panel" }
            transitions == { k \in DOMAIN animations : animations[k].type = "transition" }
        IN  /\ Cardinality(panel_clips) = N
            /\ \A i \in 0..(N - 1) :
                  Cardinality({ k \in panel_clips : animations[k].panel_index = i }) = 1
            /\ Cardinality(transitions) = N - 1
            /\ \A i \in 1..(N - 1) :
                  Cardinality({ k \in transitions :
                                  /\ animations[k].from_panel = panels[i].id
                                  /\ animations[k].to_panel = panels[i + 1].id }) = 1

\* The requests of the last generate_audio run after which the code assigns
\* audio_data[id]: a speech or combine request that returned the panel's
\* speech clip or mixed clip, and a sound-effect request made while the id had
\* no entry (its result is not looked at).
RequestId(j) == panels[audio_log.requests[j].unit + 1].id
ReturnsEntry(j) ==
    /\ audio_log.requests[j].ok
    /\ audio_log.requests[j].output \in { << RequestId(j), "panel_speech.mp3" >>,
                                          << RequestId(j), "combined.mp3" >> }
AssignsEntry(j) ==
    \/ ReturnsEntry(j)
    \/ /\ audio_log.requests[j].request = "sfx"
       /\ ~\E i \in 1..(j - 1) :
              /\ RequestId(i) = RequestId(j)
              /\ (ReturnsEntry(i) \/ audio_log.requests[i].request = "sfx")

\* The audio map the calls of the last run amount to: per panel id the output
\* of the last request that assigned it.
AudioMapOfRun ==
    LET assigning(id) == { j \in 1..Len(audio_log.requests) :
                             RequestId(j) = id /\ AssignsEntry(j) }
        ids == { panels[k].id : k \in 1..Len(panels) }
    IN  [ id \in { x \in ids : assigning(x) # {} } |->
            audio_log.requests[CHOOSE j \in assigning(id) :
                                  \A i \in assigning(id) : i <= j].output ]

\* C10: generate_audio does not fail because of a speech, sound-effect or
\* combine failure: whichever of those calls fail, it visits every panel,
\* completes, and the audio map it stores is the one its own calls amount to
\* (not one left by an earlier run).
C10_AudioStageSurvivesFailures ==
    (last.op = "generate_audio" /\ panels # << >>) =>
        /\ last.result = "ok"
        /\ last.units = Len(panels)
        /\ audio = AudioMapOfRun

\* A generate_audio run in which the speech of the first panel could not be
\* produced at all (synthesis and fallback tone both failed) and a later call
\* failed too, which went on to the next panel, returned, and stored an entry
\* for that panel only.
C10_Witness ==
    /\ last.op = "generate_audio" /\ last.result = "ok"
    /\ Len(panels) >= 2 /\ last.units = Len(panels)
    /\ \E j \in 1..Len(audio_log.requests) :
          /\ audio_log.requests[j].request = "speech"
          /\ audio_log.requests[j].unit = 0
          /\ ~audio_log.requests[j].ok
          /\ \E i \in (j + 1)..Len(audio_log.requests) :
                /\ audio_log.requests[i].unit = 1
                /\ audio_log.requests[i].ok
          /\ \E i \in (j + 1)..Len(audio_log.requests) :
                /\ audio_log.requests[i].unit = 1
                /\ ~audio_log.requests[i].ok
    /\ panels[1].id \notin DOMAIN audio
    /\ panels[2].id \in DOMAIN audio
    /\ audio = AudioMapOfRun

\* The page image of the panel can be loaded: its page index is within the
\* page list and the file at the page's path is readable.
SourceLoadable(panel) ==
    /\ panel.page_index + 1 <= Len(pages)
    /\ ImageAt(pages[panel.page_index + 1].path).readable

\* C11: a failure while generating one panel's animation or one transition
\* (its source image cannot be loaded) is contained to that unit:
\* create_animations does not abort, and completes with clips for the panels
\* whose images can be loaded.
C11_AnimationFailureContained ==
    (last.op = "create_animations" /\ panels # << >>) =>
        /\ last.result = "ok"
        /\ \A k \in 1..Len(panels) :
              SourceLoadable(panels[k]) =>
                 /\ panels[k].id \in DOMAIN animations
                 /\ animations[panels[k].id].type = "panel"

\* C12: if an encoder invocation during render_video fails (frames-to-clip,
\* mux or final concatenation), render_video fails with an error, the failed
\* request is the last one it issues, and the request is not issued a second
\* time.
C12_EncoderFailureAborts ==
    (last.op = "render_video"
       /\ \E j \in 1..Len(encoder_log) : ~encoder_log[j].ok) =>
        /\ last.result = "error"
        /\ \A j \in 1..Len(encoder_log) :
              ~encoder_log[j].ok =>
                 /\ j = Len(encoder_log)
                 /\ \A k \in 1..Len(encoder_log) :
                       k # j =>
                          \/ encoder_log[k].request # encoder_log[j].request
                          \/ encoder_log[k].unit # encoder_log[j].unit
                          \/ encoder_log[k].output # encoder_log[j].output

\* A render_video whose final concatenation failed after clips and a mux had
\* been encoded.
C12_Witness ==
    /\ last.op = "render_video" /\ last.result = "error"
    /\ Len(encoder_log) >= 4
    /\ encoder_log[Len(encoder_log)].request = "concat"
    /\ ~encoder_log[Len(encoder_log)].ok
    /\ \E j \in 1..Len(encoder_log) : encoder_log[j].request = "mux"

\* ---- two candidate rectangles (SpecPair) ----------------------------------

\* C13: for two candidate rectangles the merge returns the single bounding box
\* of both exactly when their intersection area exceeds 0.3 times the smaller
\* one's area, and both rectangles unchanged otherwise.
C13_PairMergedIffOverThreshold ==
    (geo_out.op = "merge" /\ Len(cands) = 2) =>
        LET a == cands[1]
            b == cands[2]
            smaller == IF a[3] * a[4] <= b[3] * b[4] THEN a[3] * a[4] ELSE b[3] * b[4]
            left    == IF a[1] >= b[1] THEN a[1] ELSE b[1]
            right   == IF a[1] + a[3] <= b[1] + b[3] THEN a[1] + a[3] ELSE b[1] + b[3]
            top     == IF a[2] >= b[2] THEN a[2] ELSE b[2]
            bottom  == IF a[2] + a[4] <= b[2] + b[4] THEN a[2] + a[4] ELSE b[2] + b[4]
            inter   == IF right > left /\ bottom > top
                       THEN (right - left) * (bottom - top) ELSE 0
            x0 == IF a[1] <= b[1] THEN a[1] ELSE b[1]
            y0 == IF a[2] <= b[2] THEN a[2] ELSE b[2]
            x1 == IF a[1] + a[3] >= b[1] + b[3] THEN a[1] + a[3] ELSE b[1] + b[3]
            y1 == IF a[2] + a[4] >= b[2] + b[4] THEN a[2] + a[4] ELSE b[2] + b[4]
        IN  IF 10 * inter > 3 * smaller
            THEN geo_out.result = << << x0, y0, x1 - x0, y1 - y0 >> >>
            ELSE Len(geo_out.result) = 2 /\ Range(geo_out.result) = { a, b }

\* Two rectangles of one row overlapping by 40% of the smaller, merged into
\* their bounding box.
C13_Witness ==
    /\ geo_out.op = "merge" /\ Len(cands) = 2
    /\ 5 * OverlapArea(cands[1], cands[2]) =
          2 * Min(RectArea(cands[1]), RectArea(cands[2]))
    /\ OverlapArea(cands[1], cands[2]) > 0
    /\ geo_out.result = << BoundingBox(cands[1], cands[2]) >>

\* The requests of the given kind that the last generate_audio run made for
\* the panel at position u.
AudioRequestsOf(u, kind) ==
    { j \in 1..Len(audio_log.requests) :
        audio_log.requests[j].unit = u /\ audio_log.requests[j].request = kind }

SpeechClip(id) == << id, "panel_speech.mp3" >>
EffectClip(id) == << id, "impact.wav" >>
MixedClip(id)  == << id, "combined.mp3" >>

\* The last generate_audio run produced a speech clip for the panel at u.
HasSpeechClip(u) ==
    \E j \in 1..Len(audio_log.requests) :
        /\ audio_log.requests[j].unit = u
        /\ audio_log.requests[j].output = SpeechClip(panels[u + 1].id)
        /\ audio_log.requests[j].ok

\* C14: with sound effects enabled, a panel whose text content holds an action
\* keyword gets exactly one sound-effect request; when the panel has a speech
\* clip the effect is handed to one combine request together with that clip
\* and the combined clip is the panel's audio entry; when it has no speech
\* clip there is no combine request and the effect is the panel's audio entry
\* by itself. A panel whose text holds no keyword, and every panel when sound
\* effects are disabled, gets no sound-effect request and no such combine
\* request. (Stated for the runs in which every call succeeds.)
C14_OneEffectPerKeywordPanel ==
    (/\ last.op = "generate_audio" /\ last.result = "ok"
     /\ \A j \in 1..Len(audio_log.requests) : audio_log.requests[j].ok) =>
        \A k \in 1..Len(panels) :
            LET id  == panels[k].id
                mix == { j \in AudioRequestsOf(k - 1, "combine") :
                           audio_log.requests[j].output = MixedClip(id) }
            IN  IF audio_log.settings.enable_sound_effects
                   /\ HasKeyword(TextContent(panels[k]))
                THEN /\ Cardinality(AudioRequestsOf(k - 1, "sfx")) = 1
                     /\ \A j \in AudioRequestsOf(k - 1, "sfx") :
                           audio_log.requests[j].output = EffectClip(id)
                     /\ IF HasSpeechClip(k - 1)
                        THEN /\ Cardinality(mix) = 1
                             /\ \A j \in mix :
                                   audio_log.requests[j].input =
                                       << SpeechClip(id), EffectClip(id) >>
                        ELSE mix = {}
                     /\ \/ k < Len(panels) /\ \E m \in (k + 1)..Len(panels) : panels[m].id = id
                        \/ /\ id \in DOMAIN audio
                           /\ audio[id] = IF HasSpeechClip(k - 1) THEN MixedClip(id)
                                          ELSE EffectClip(id)
                ELSE /\ AudioRequestsOf(k - 1, "sfx") = {}
                     /\ mix = {}


\* The encoder requests of the given kind that the last render_video made in
\* the pass of the panel at index i.
EncoderRequestsOf(i, kind) ==
    { j \in 1..Len(encoder_log) :
        encoder_log[j].unit = i /\ encoder_log[j].request = kind }

ConcatRequests == { j \in 1..Len(encoder_log) : encoder_log[j].request = "concat" }

\* C15: render_video asks for at most one mux per panel, only for a panel with
\* both an animation entry and an audio entry, only after that panel's own clip
\* has been encoded, and with that clip (never a transition clip) as its
\* input; it asks for at most one concatenation, as its last request and only
\* after every earlier request has succeeded. A render_video that returns has
\* asked for exactly one mux for each panel with both entries and for exactly
\* one concatenation.
C15_MuxPerVoicedPanelThenConcat ==
    last.op = "render_video" =>
        /\ \A i \in 0..(Len(panels) - 1) :
              LET id  == panels[i + 1].id
                  mux == EncoderRequestsOf(i, "mux")
              IN  /\ Cardinality(mux) <= 1
                  /\ \A j \in mux :
                        /\ id \in DOMAIN animations /\ id \in DOMAIN audio
                        /\ encoder_log[j].input = PanelVideo(id)
                        /\ encoder_log[j].output = PanelVideoWithAudio(id)
                        /\ \E c \in EncoderRequestsOf(i, "clip") :
                              /\ c < j
                              /\ encoder_log[c].output = PanelVideo(id)
                              /\ encoder_log[c].ok
                  /\ last.result = "ok" =>
                        (mux # {} <=> (id \in DOMAIN animations /\ id \in DOMAIN audio))
        /\ \A j \in 1..Len(encoder_log) :
              encoder_log[j].request = "mux" => encoder_log[j].unit \in 0..(Len(panels) - 1)
        /\ Cardinality(ConcatRequests) <= 1
        /\ \A j \in ConcatRequests :
              /\ j = Len(encoder_log)
              /\ \A k \in 1..(j - 1) : encoder_log[k].ok
        /\ last.result = "ok" => Cardinality(ConcatRequests) = 1

\* A render_video that returned after encoding a transition, a panel with
\* audio (muxed) and a panel without audio (not muxed).
C15_Witness ==
    /\ last.op = "render_video" /\ last.result = "ok"
    /\ \E i \in 0..(Len(panels) - 1) : EncoderRequestsOf(i, "mux") # {}
    /\ \E i \in 0..(Len(panels) - 1) :
          /\ EncoderRequestsOf(i, "mux") = {}
          /\ \E c \in EncoderRequestsOf(i, "clip") :
                encoder_log[c].output = PanelVideo(panels[i + 1].id)
    /\ \E j \in 1..Len(encoder_log) :
          /\ encoder_log[j].request = "clip"
          /\ encoder_log[j].output = TransitionVideo(<< "transition", encoder_log[j].unit >>)
    /\ encoder_log[Len(encoder_log)].request = "concat"

\* Every call the last generate_audio run made to the audio generator
\* succeeded.
AllAudioRequestsSucceeded ==
    \A j \in 1..Len(audio_log.requests) : audio_log.requests[j].ok

PanelIdsDistinct ==
    \A j, k \in 1..Len(panels) : panels[j].id = panels[k].id => j = k

\* C16: after a generate_audio in which every call to the audio generator
\* succeeded, run over panels with distinct ids, a panel has no entry in the
\* audio map if and only if its text content (its own text and its bubbles'
\* texts) is blank.
C16_AudioEntryIffText ==
    (/\ last.op = "generate_audio" /\ last.result = "ok"
     /\ AllAudioRequestsSucceeded
     /\ PanelIdsDistinct) =>
        \A k \in 1..Len(panels) :
            (panels[k].id \notin DOMAIN audio) <=> IsBlank(TextContent(panels[k]))

\* C17: an extract_comic that is handed an existing file whose extension is
\* neither .cbz nor .cbr fails (with the extractor's ValueError), and the page
\* list, the directory on disk and the set of completed operations stay as
\* they were.
C17_UnsupportedExtensionRejected ==
    [][ \A archive \in Archives :
          (/\ archive.kind \notin { "cbz", "cbr", "missing" }
           /\ last.n < MaxCalls
           /\ ExtractComic(archive, TRUE)) =>
              /\ last'.op = "extract_comic"
              /\ last'.result = "error"
              /\ last'.raised = "ValueError"
              /\ pages' = pages
              /\ extracted' = extracted
              /\ done' = done ]_vars

\* An extract_comic rejected for its extension on a project that already had
\* pages, which it still has.
C17_Witness ==
    /\ last.op = "extract_comic"
    /\ last.result = "error"
    /\ last.raised = "ValueError"
    /\ pages # << >>
    /\ "extract_comic" \in done

\* C20: over the N > 1 frames of a pan-and-scan clip the ease factor is 0 at
\* the first frame (t = 0), 1 at the last (t = 1), one half at the middle frame
\* when there is one (N odd, t = 0.5), and does not decrease from one frame to
\* the next.
C20_EaseEndpointsMidpointMonotone ==
    (an_out.op = "pan_and_scan" /\ Len(an_out.frames) > 1) =>
        LET n == Len(an_out.frames)
        IN  /\ Ease(0, n)[1] = 0
            /\ Ease(n - 1, n)[1] = Ease(n - 1, n)[2]
            /\ (n - 1) % 2 = 0 =>
                  2 * Ease((n - 1) \div 2, n)[1] = Ease((n - 1) \div 2, n)[2]
            /\ \A i \in 0..(n - 2) :
                  /\ Ease(i, n)[2] = Ease(i + 1, n)[2]
                  /\ Ease(i, n)[1] <= Ease(i + 1, n)[1]
            /\ \A i \in 0..(n - 1) :
                  Ease(i, n)[1] >= 0 /\ Ease(i, n)[1] <= Ease(i, n)[2]

\* A pan-and-scan clip of nine frames: it has a middle frame (t = 0.5) and
\* frames on both branches of the ease function.
C20_Witness ==
    /\ an_out.op = "pan_and_scan"
    /\ Len(an_out.frames) = 9
    /\ 2 * Ease(4, 9)[1] = Ease(4, 9)[2]
    /\ Ease(3, 9)[1] < Ease(4, 9)[1]

\* ---- main window and worker threads (SpecUI, SpecUIFair) ------------------

\* What holds of every worker at every moment: its stage calls are a prefix of
\* the stage order, each made after the one before it returned without
\* raising; it emits at most one finished signal and has emitted one exactly
\* when it is through; a success signal comes after all five stages returned,
\* a failure signal right after the one call that raised, carrying that call's
\* error; and no signal is queued twice.
RunEndsWithOneSignal ==
    \A w \in 1..Len(workers) :
        LET b == workers[w].begun
            e == workers[w].emitted
        IN  /\ Len(b) <= Len(StageOrder)
            /\ \A k \in 1..Len(b) :
                  /\ b[k].stage = StageOrder[k]
                  /\ k < Len(b) => b[k].result = "ok"
            /\ Len(e) <= 1
            /\ (workers[w].pc = "finished") <=> (Len(e) = 1)
            /\ Len(e) = 1 =>
                  IF e[1].success
                  THEN /\ Len(b) = Len(StageOrder)
                       /\ \A k \in 1..Len(b) : b[k].result = "ok"
                  ELSE /\ b # << >>
                       /\ b[Len(b)].result = "error"
                       /\ e[1].error = b[Len(b)].raised
            /\ Cardinality({ j \in 1..Len(pending) : pending[j] = w }) <= Len(e)

\* C18: every worker that is started ends with exactly one finished signal:
\* success only after extract_comic, process_pages, create_animations,
\* generate_audio and render_video have each returned, in that order;
\* otherwise failure with the error of the first call that raised, after
\* which the worker calls no further stage.
C18_EveryRunEndsWithOneSignal ==
    /\ []RunEndsWithOneSignal
    /\ \A w \in 1..MaxRuns :
          (Len(workers) >= w) ~> (Len(workers) >= w /\ workers[w].pc = "finished")

\* A first run that failed after its first stage and a second run, on the
\* same coordinator, that went through all five stages.
C18_Witness ==
    /\ Len(workers) = 2
    /\ workers[1].pc = "finished" /\ workers[2].pc = "finished"
    /\ ~workers[1].emitted[1].success
    /\ Len(workers[1].begun) \in 2..4
    /\ workers[2].emitted[1].success
    /\ pending = << >>

\* The workers that are running or whose finished signal has not been handled.
ActiveWorkers ==
    { w \in 1..Len(workers) : workers[w].pc # "finished" \/ w \in Range(pending) }

\* C19: at most one worker is active on the coordinator at any moment (from
\* its start until process_finished has handled its signal), and while one is
\* active the three buttons are disabled and no dialog is open.
C19_OneWorkerAtATime ==
    /\ Cardinality(ActiveWorkers) <= 1
    /\ ActiveWorkers # {} =>
          /\ enabled = [generate |-> FALSE, browse |-> FALSE, output |-> FALSE]
          /\ dialog = "none"

\* A second run in progress after the first one was handled and the user
\* picked another input file.
C19_Witness ==
    /\ Len(workers) = 2
    /\ workers[1].pc = "finished"
    /\ workers[2].pc = "create_animations"
    /\ workers[1].input # workers[2].input
    /\ ActiveWorkers = { 2 }


\* ---- C21 ------------------------------------------------------------------

\* The successful requests of the last generate_audio run that mixed a sound
\* effect into the speech clip of the panel at u.
EffectMixes(u) ==
    { j \in AudioRequestsOf(u, "combine") :
        /\ audio_log.requests[j].ok
        /\ audio_log.requests[j].output = MixedClip(panels[u + 1].id) }

\* The length of the speech-only clip that request j took as its first track
\* (0 for a synthesized clip, whose length the code does not determine).
SpeechOnlyTenths(j) ==
    TrackTenths(SubSeq(audio_log.requests, 1, j - 1), audio_log.requests[j].input[1])

\* C21: when a sound effect is attached to a panel that has speech, the
\* panel's clip after the attachment lasts longer than the speech-only clip
\* (stated for speech clips whose length the code determines).
C21_EffectLengthensClip ==
    (last.op = "generate_audio" /\ last.result = "ok") =>
        \A k \in 1..Len(panels) : \A j \in EffectMixes(k - 1) :
            SpeechOnlyTenths(j) > 0 =>
                audio_log.requests[j].tenths > SpeechOnlyTenths(j)


\* ---- video renderer (SpecVideo) -------------------------------------------

\* C22: the manifest written for a clip holds, for the k-th given frame, the
\* file line of that frame as its line 2k-1 and a duration line as its line 2k,
\* and nothing else: the frames appear in their given order, none omitted,
\* duplicated or moved; every duration is the given frame duration, or 1/fps
\* when none is given.
C22_ManifestMirrorsFrames ==
    (vr_out.called /\ ~vr_out.raised) =>
        /\ Len(vr_out.manifest) = 2 * Len(vr_in.frame_paths)
        /\ \A k \in 1..Len(vr_in.frame_paths) :
              /\ vr_out.manifest[2 * k - 1] =
                     [line |-> "file", value |-> vr_in.frame_paths[k]]
              /\ vr_out.manifest[2 * k].line = "duration"
              /\ vr_out.manifest[2 * k].value =
                     (IF vr_in.frame_duration = None
                      THEN << 1, vr_in.fps >> ELSE vr_in.frame_duration)

\* A manifest was written for three frames, two of them the same file, with
\* the default duration at 30 fps.
C22_Witness ==
    /\ vr_out.called /\ ~vr_out.raised
    /\ vr_in.frame_paths = << "frame_0001.jpg", "frame_0000.jpg", "frame_0001.jpg" >>
    /\ vr_in.frame_duration = None /\ vr_in.fps = 30
    /\ Len(vr_out.manifest) = 6
    /\ vr_out.manifest[6] = [line |-> "duration", value |-> << 1, 30 >>]


\* ---- render_video at a chosen fps (SpecRender) ----------------------------

\* The successful frames-to-clip requests of the last render_video run whose
\* frame directory holds the frames the animation entry lists.
ClipRequests ==
    { j \in 1..Len(encoder_log) :
        /\ encoder_log[j].request = "clip" /\ encoder_log[j].ok
        /\ encoder_log[j].input \in DOMAIN frame_dirs
        /\ frame_dirs[encoder_log[j].input].n = encoder_log[j].frames }

\* The sum of the duration lines of the manifest of clip request j.
ClipSeconds(j) ==
    Reduced(<< encoder_log[j].frames * encoder_log[j].frame_duration[1],
               encoder_log[j].frame_duration[2] >>)

\* C23: whatever fps render_video is given, the duration lines of a clip's
\* manifest add up to the duration the clip's frames were animated for:
\* panel_duration / animation_speed for a panel clip and
\* transition_duration / animation_speed for a transition clip.
C23_ManifestSumIsAnimatedDuration ==
    (last.op = "render_video" /\ last.result = "ok") =>
        \A j \in ClipRequests :
            RatEq(ClipSeconds(j), frame_dirs[encoder_log[j].input].duration)


\* ---- the panels of a page (SpecPage) --------------------------------------

\* C24: the panels process_image returns for a page, which process_pages
\* stores, are a merged set: no two of them overlap by more than 0.3 times the
\* smaller one's area.
C24_PagePanelsAreMerged ==
    geo_out.op = "process_image" =>
        \A i, j \in 1..Len(geo_out.result) :
            i < j => ~OverlapsSignificantly(geo_out.result[i], geo_out.result[j])


\* ---- the work units of a stage (Spec) -------------------------------------

\* C25: in create_animations and generate_audio every panel's unit writes
\* its own slot and its own directory, once: after create_animations the
\* animation entry and the frame directory under a panel's id are the ones
\* written by that panel's unit, and in a generate_audio run no audio file is
\* written by two requests (no two panels of the project share an id).
C25_EachSlotWrittenByItsOwnUnit ==
    /\ (last.op = "create_animations" /\ last.result = "ok") =>
          \A k \in 1..Len(panels) :
              /\ panels[k].id \in DOMAIN animations
              /\ animations[panels[k].id].panel_index = k - 1
              /\ panels[k].id \in DOMAIN frame_dirs
              /\ frame_dirs[panels[k].id].unit = k - 1
    /\ (last.op = "generate_audio" /\ last.result = "ok") =>
          \A i, j \in 1..Len(audio_log.requests) :
              i < j => audio_log.requests[i].output # audio_log.requests[j].output


\* ---- slide transition (SpecAnim) ------------------------------------------

\* The frame the slide is described to show at factor t on images of width w:
\* with offset = round(w * t), image A shifted left by offset, followed by the
\* first offset columns of image B.
DescribedSlideFrame(w, t) ==
    LET offset == RoundHalfEven(w * t[1], t[2])
    IN  [ k \in 1..w |->
            IF k - 1 < w - offset THEN FromColumn(k - 1 + offset)
            ELSE ToColumn(k - 1 - (w - offset)) ]

\* C26: every frame of a slide transition between images A and B of width W
\* holds, with offset = round(W * t), the first offset columns of B in its last
\* offset columns and A shifted left by offset in the others; so the first
\* frame (t = 0) is A and the last frame (t = 1) is B.
C26_SlideFramesShiftAIntoB ==
    an_out.op = "slide" =>
        LET n == Len(an_out.frames)
            w == an_in.dim[1]
        IN  \A j \in 1..n :
                an_out.frames[j] =
                    DescribedSlideFrame(w, IF n > 1 THEN << j - 1, n - 1 >> ELSE << 0, 1 >>)


\* ---- OCR failures (Spec) --------------------------------------------------

\* C27: an OCR call that fails on a panel or bubble region never aborts
\* process_pages: no process_pages call ends with the OCR engine's exception
\* (the region's text would be empty and the stage would store its panels).
C27_OcrFailureDoesNotAbort ==
    last.op = "process_pages" => last.raised # "TesseractError"


\* ---- merging keeps every candidate (SpecMerge) ----------------------------

\* Rectangle p lies inside rectangle q.
Inside(p, q) ==
    /\ q[1] <= p[1] /\ p[1] + p[3] <= q[1] + q[3]
    /\ q[2] <= p[2] /\ p[2] + p[4] <= q[2] + q[4]

\* The bounding box of a non-empty list of rectangles.
BoundsOf(ps) ==
    LET x == CHOOSE v \in { ps[k][1] : k \in 1..Len(ps) } :
                 \A k \in 1..Len(ps) : v <= ps[k][1]
        y == CHOOSE v \in { ps[k][2] : k \in 1..Len(ps) } :
                 \A k \in 1..Len(ps) : v <= ps[k][2]
        r == CHOOSE v \in { ps[k][1] + ps[k][3] : k \in 1..Len(ps) } :
                 \A k \in 1..Len(ps) : v >= ps[k][1] + ps[k][3]
        b == CHOOSE v \in { ps[k][2] + ps[k][4] : k \in 1..Len(ps) } :
                 \A k \in 1..Len(ps) : v >= ps[k][2] + ps[k][4]
    IN  << x, y, r - x, b - y >>

\* C28: _merge_overlapping_panels returns (it terminates on every input) and
\* loses no candidate: every input rectangle lies inside some returned
\* rectangle, the result has no more rectangles than the input and is empty
\* only for empty input, and every returned rectangle has positive width and
\* height and lies inside the bounding box of the inputs.
C28_MergeKeepsEveryCandidate ==
    geo_out.op = "merge" =>
        /\ \A i \in 1..Len(cands) :
              \E k \in 1..Len(geo_out.result) : Inside(cands[i], geo_out.result[k])
        /\ Len(geo_out.result) <= Len(cands)
        /\ (geo_out.result = << >>) <=> (cands = << >>)
        /\ \A k \in 1..Len(geo_out.result) :
              /\ geo_out.result[k][3] > 0 /\ geo_out.result[k][4] > 0
              /\ Inside(geo_out.result[k], BoundsOf(cands))

\* A merge of three candidates into two: one rectangle absorbed another that
\* reached outside it, and the third stayed by itself.
C28_Witness ==
    /\ geo_out.op = "merge"
    /\ Len(cands) = 3 /\ Len(geo_out.result) = 2
    /\ \E k \in 1..2 : \A i \in 1..3 : geo_out.result[k] # cands[i]
    /\ \E k \in 1..2 : \E i \in 1..3 : geo_out.result[k] = cands[i]


\* ---- a stage that raises (Spec) -------------------------------------------

\* C29: a call of extract_comic, process_pages, create_animations or
\* generate_audio that raises, at whatever point of its work, leaves pages,
\* panels, animations and audio as they were before the call: a stage replaces
\* its collection only when it has gone through all of its work.
C29_FailedStageKeepsProjectData ==
    [][ ( /\ last'.n # last.n
          /\ last'.op \in { "extract_comic", "process_pages", "create_animations",
                            "generate_audio" }
          /\ last'.result = "error" )
        => ProjectData' = ProjectData ]_vars

\* process_pages raised in an OCR call on its second page, after it had
\* gone through the first, and the panels of an earlier run are still stored.
C29_Witness ==
    /\ last.op = "process_pages" /\ last.result = "error"
    /\ last.raised = "TesseractError" /\ last.units = 1
    /\ Len(panels) = 2


\* ---- the paths in the audio map (Spec) ------------------------------------

\* C30: every path in the audio map after generate_audio is the output of a
\* speech, sound-effect or combine call of that run which succeeded: the path
\* of a call that returned None is never a panel's entry.
C30_StoredPathsCameFromSuccessfulCalls ==
    (last.op = "generate_audio" /\ last.result = "ok") =>
        \A id \in DOMAIN audio :
            \E j \in 1..Len(audio_log.requests) :
                /\ audio_log.requests[j].output = audio[id]
                /\ audio_log.requests[j].ok

====
